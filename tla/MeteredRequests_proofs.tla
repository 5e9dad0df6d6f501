------------------------ MODULE MeteredRequests_proofs ------------------------
(***************************************************************************)
(* Theorems about the requests a plan's limits are about, for every set of *)
(* accounts, tools, surfaces and slots, every limit and chain of           *)
(* providers: what is kept of a request is metered and nothing else is,    *)
(* a link code admits one Telegram account, overlapping requests exceed a  *)
(* limit by less than their number, and no tool shows a request rows of a  *)
(* workspace its user does not belong to.                                  *)
(***************************************************************************)
EXTENDS MeteredRequests, FiniteSetTheorems, WellFoundedInduction, TLAPS

(* The entrances a request can come through. *)
LEMMA ProgramKinds == DOMAIN Program = {"plain", "stream", "telegram", "mcp", "analysis"}
  BY DEF Program

(* In the program of every entrance the usage row comes right after the work it counts, *)
(* and after nothing else.                                                              *)
LEMMA MeterFollowsWrite ==
  ASSUME NEW k \in DOMAIN Program, NEW i \in 1..Len(Program[k])
  PROVE  /\ Program[k][i] = "write" => i + 1 <= Len(Program[k]) /\ Program[k][i + 1] = "meter"
         /\ Program[k][i] # "write" => i + 1 > Len(Program[k]) \/ Program[k][i + 1] # "meter"
         /\ Program[k][i] # "-"
  <1>1. CASE k = "plain"
    BY <1>1, SMTT(20) DEF Program, PlainTurn
  <1>2. CASE k = "stream"
    BY <1>2, SMTT(20) DEF Program, StreamedTurn
  <1>3. CASE k = "telegram"
    BY <1>3, SMTT(20) DEF Program, TelegramTurn
  <1>4. CASE k = "mcp"
    BY <1>4, SMTT(20) DEF Program, McpCall
  <1>5. CASE k = "analysis"
    BY <1>5, SMTT(20) DEF Program, AnalysisRun
  <1> QED
    BY <1>1, <1>2, <1>3, <1>4, <1>5, ProgramKinds

(* No program starts with the usage row. *)
LEMMA ProgramStarts ==
  ASSUME NEW k \in DOMAIN Program
  PROVE  Len(Program[k]) \in Nat \ {0} /\ Program[k][1] # "meter"
  BY ProgramKinds, SMTT(20) DEF Program, PlainTurn, StreamedTurn, TelegramTurn, McpCall, AnalysisRun

(* The step a request is at, or "-" when it has run all of them. *)
StepOf(r) == IF r.pc <= Len(Program[r.on]) THEN Program[r.on][r.pc] ELSE "-"

(* A request that serves has the fields Begin gives it. *)
Shaped(r) ==
  r = [on |-> r.on, pc |-> r.pc, cx |-> r.cx, bound |-> r.bound, tx |-> r.tx, did |-> r.did,
       tried |-> r.tried, sender |-> r.sender]

(* Between its steps a request has written its work and its usage, or neither; only *)
(* before the usage step it has written the work alone.                             *)
Good(r) ==
  /\ Shaped(r)
  /\ r.pc \in 1..Len(Program[r.on]) + 1
  /\ IF StepOf(r) = "meter" THEN "work" \in r.did ELSE ("work" \in r.did <=> "usage" \in r.did)

(* What the proof of the metering rests on. *)
MeterInv ==
  /\ at = [c \in Slots |-> at[c]]
  /\ \A c \in Slots : Serving(c) => Good(at[c])
  /\ used = kept

(* The step of a request that neither redeems a code nor touches codes and links. *)
Spared(c) ==
  /\ UNCHANGED <<codes, links>>
  /\ at'[c].on # "redeem" /\ \A d \in Slots \ {c} : at'[d] = at[d]

(* A request that goes one step on, with the row of that step written, stays good. *)
LEMMA NextStep ==
  ASSUME NEW r, NEW s, r.on \in DOMAIN Program, Good(r), StepOf(r) # "-",
         s = [on |-> r.on, pc |-> r.pc + 1, cx |-> r.cx, bound |-> r.bound, tx |-> s.tx,
              did |-> s.did, tried |-> r.tried, sender |-> r.sender],
         "work" \in s.did <=> ("work" \in r.did \/ StepOf(r) = "write"),
         "usage" \in s.did <=> ("usage" \in r.did \/ StepOf(r) = "meter")
  PROVE  Good(s)
<1>1. /\ s.on = r.on /\ s.pc = r.pc + 1
      /\ s.cx = r.cx /\ s.bound = r.bound /\ s.tried = r.tried /\ s.sender = r.sender
  OBVIOUS
<1>2. Shaped(s)
  BY <1>1 DEF Shaped
<1>3. r.pc \in 1..Len(Program[r.on]) /\ StepOf(r) = Program[r.on][r.pc]
  BY ProgramStarts DEF StepOf, Good
<1>4. s.pc \in 1..Len(Program[s.on]) + 1
  BY <1>1, <1>3, ProgramStarts
<1>5. CASE StepOf(r) = "write"
  <2>1. StepOf(s) = "meter"
    BY <1>1, <1>3, <1>5, MeterFollowsWrite DEF StepOf
  <2> QED
    BY <1>2, <1>4, <1>5, <2>1 DEF Good
<1>6. CASE StepOf(r) # "write"
  <2>1. StepOf(s) # "meter"
    BY <1>1, <1>3, <1>6, MeterFollowsWrite DEF StepOf
  <2>2. "work" \in s.did <=> "usage" \in s.did
    BY <1>6 DEF Good
  <2> QED
    BY <1>2, <1>4, <2>1, <2>2 DEF Good
<1> QED
  BY <1>5, <1>6

(* One slot gets another request, and the totals stay equal: the invariant holds again. *)
LEMMA Replaced ==
  ASSUME MeterInv, NEW c \in Slots, NEW r, at' = [at EXCEPT ![c] = r],
         r.on \in DOMAIN Program => Good(r), used' = kept'
  PROVE  MeterInv' /\ at'[c] = r /\ \A d \in Slots \ {c} : at'[d] = at[d]
<1>1. at' = [d \in Slots |-> at'[d]] /\ at'[c] = r /\ \A d \in Slots \ {c} : at'[d] = at[d]
  BY DEF MeterInv
<1>2. ASSUME NEW d \in Slots, Serving(d)' PROVE Good(at[d])'
  BY <1>1, <1>2 DEF MeterInv, Serving, Good, Shaped, StepOf
<1> QED
  BY <1>1, <1>2 DEF MeterInv

(* A slot is left without a commit. *)
LEMMA Emptied ==
  ASSUME MeterInv, NEW c \in Slots, at' = [at EXCEPT ![c] = Idle], used' = kept',
         UNCHANGED <<codes, links>>
  PROVE  MeterInv' /\ Spared(c)
<1>1. Idle.on \notin DOMAIN Program /\ Idle.on # "redeem"
  BY ProgramKinds DEF Idle
<1> QED
  BY <1>1, Replaced DEF Spared

(* A request that starts has written nothing. *)
LEMMA Begun ==
  ASSUME NEW k \in DOMAIN Program, NEW cx, NEW sender
  PROVE  Good(Begin(k, cx, sender))
<1> DEFINE r == Begin(k, cx, sender)
<1>1. /\ Shaped(r) /\ r.pc = 1 /\ r.on = k
      /\ "work" \notin r.did /\ "usage" \notin r.did
  BY DEF Begin, Shaped
<1> QED
  BY <1>1, ProgramStarts DEF Good, StepOf

(* A slot that is at a step serves a request, and a good one. *)
LEMMA Serves ==
  ASSUME MeterInv, NEW c \in Slots, Doing(c) # "-"
  PROVE  /\ at[c].on \in DOMAIN Program
         /\ Good(at[c]) /\ StepOf(at[c]) = Doing(c)
  BY DEF Doing, Serving, Steps, StepOf, MeterInv

(* A slot whose request goes one step on. *)
LEMMA Advanced ==
  ASSUME MeterInv, NEW c \in Slots, Doing(c) # "-", NEW s,
         s = [on |-> at[c].on, pc |-> at[c].pc + 1, cx |-> at[c].cx, bound |-> at[c].bound,
              tx |-> s.tx, did |-> s.did, tried |-> at[c].tried, sender |-> at[c].sender],
         "work" \in s.did <=> ("work" \in at[c].did \/ Doing(c) = "write"),
         "usage" \in s.did <=> ("usage" \in at[c].did \/ Doing(c) = "meter"),
         Goto(c, s)
  PROVE  MeterInv' /\ Spared(c)
<1>1. Good(s)
  BY Serves, NextStep
<1>2. at' = [at EXCEPT ![c] = s] /\ used' = kept' /\ UNCHANGED <<codes, links>>
  BY DEF Goto, MeterInv, accountVars
<1>3. s.on # "redeem"
  BY Serves, ProgramKinds
<1> QED
  BY <1>1, <1>2, <1>3, Replaced DEF Spared

(* A request one step on, with these rows written in this transaction. *)
Moved(r, tx, did) ==
  [on |-> r.on, pc |-> r.pc + 1, cx |-> r.cx, bound |-> r.bound, tx |-> tx, did |-> did,
   tried |-> r.tried, sender |-> r.sender]

(* What advancing, poisoning and writing do to a request. *)
LEMMA MovedOn ==
  ASSUME NEW r, Shaped(r), NEW row
  PROVE  /\ Advance(r) = Moved(r, r.tx, r.did)
         /\ Poisoned(r) = Moved(r, "aborted", r.did)
         /\ Wrote(r, row) = Moved(r, r.tx, r.did \cup {row})
<1>1. Advance(r) = Moved(r, r.tx, r.did)
  BY DEF Advance, Shaped, Moved
<1> DEFINE m == Moved(r, r.tx, r.did)
<1>2. [m EXCEPT !.tx = "aborted"] = Moved(r, "aborted", r.did)
  BY DEF Moved
<1>3. [m EXCEPT !.did = @ \cup {row}] = Moved(r, r.tx, r.did \cup {row})
  BY DEF Moved
<1>4. Poisoned(r) = [m EXCEPT !.tx = "aborted"] /\ Wrote(r, row) = [m EXCEPT !.did = @ \cup {row}]
  <2> HIDE DEF m
  <2>1. Advance(r) = m
    BY <1>1 DEF m
  <2> QED
    BY <2>1, Zenon DEF Poisoned, Wrote
<1> QED
  BY <1>1, <1>2, <1>3, <1>4

(* Steps that write neither work nor usage. *)
LEMMA GoesOn ==
  ASSUME MeterInv, NEW c \in Slots, Doing(c) \notin {"-", "write", "meter"},
         Goto(c, Advance(at[c])) \/ Goto(c, Poisoned(at[c]))
  PROVE  MeterInv' /\ Spared(c)
<1> DEFINE r == at[c]
<1>1. Shaped(r)
  BY Serves DEF Good
<1>2. PICK tx : Goto(c, Moved(r, tx, r.did))
  <2>1. CASE Goto(c, Advance(r))
    BY <1>1, <2>1, MovedOn, Zenon
  <2>2. CASE Goto(c, Poisoned(r))
    BY <1>1, <2>2, MovedOn, Zenon
  <2> QED
    BY <2>1, <2>2
<1>3. Moved(r, tx, r.did).tx = tx /\ Moved(r, tx, r.did).did = r.did
  BY DEF Moved
<1> QED
  BY <1>2, <1>3, Advanced DEF Moved

(* Steps that write a row. *)
LEMMA Writes ==
  ASSUME MeterInv, NEW c \in Slots, Doing(c) # "-", NEW row, Goto(c, Wrote(at[c], row)),
         row = "work" <=> Doing(c) = "write", row = "usage" <=> Doing(c) = "meter"
  PROVE  MeterInv' /\ Spared(c)
<1> DEFINE r == at[c]
           s == Moved(r, r.tx, r.did \cup {row})
<1>1. Shaped(r)
  BY Serves DEF Good
<1>2. Wrote(r, row) = s
  BY <1>1, MovedOn
<1>3. s.tx = r.tx /\ s.did = r.did \cup {row}
  BY DEF Moved
<1>4. Goto(c, s)
  BY <1>2
<1> QED
  BY <1>3, <1>4, Advanced DEF Moved

(* A commit that makes work and usage visible together, or neither. *)
LEMMA Settled ==
  ASSUME MeterInv, NEW c \in Slots, NEW rows, Settle(c, rows),
         "work" \in rows <=> "usage" \in rows
  PROVE  MeterInv' /\ Spared(c)
<1>1. Count(rows, "usage") = Count(rows, "work")
  BY DEF Count
<1>2. used' = kept' /\ at' = [at EXCEPT ![c] = Idle] /\ UNCHANGED <<codes, links>>
  BY <1>1 DEF Settle, MeterInv, accountVars
<1> QED
  BY <1>2, Emptied

(* A request sent to another step, with nothing written. *)
Sent(r, pc, tx, tried) ==
  [on |-> r.on, pc |-> pc, cx |-> r.cx, bound |-> r.bound, tx |-> tx, did |-> r.did,
   tried |-> tried, sender |-> r.sender]

(* What a jump, and a tool call, do to a request. *)
LEMMA SentOn ==
  ASSUME NEW r, Shaped(r), NEW pc, NEW tx
  PROVE  /\ [r EXCEPT !.pc = pc] = Sent(r, pc, r.tx, r.tried)
         /\ [r EXCEPT !.tx = tx, !.pc = pc] = Sent(r, pc, tx, r.tried)
<1>1. [r EXCEPT !.pc = pc] = Sent(r, pc, r.tx, r.tried)
  BY DEF Shaped, Sent
<1>2. [r EXCEPT !.tx = tx, !.pc = pc] = [[r EXCEPT !.tx = tx] EXCEPT !.pc = pc]
  BY Zenon
<1>3. [r EXCEPT !.tx = tx] = Sent(r, r.pc, tx, r.tried)
  BY DEF Shaped, Sent
<1>4. [Sent(r, r.pc, tx, r.tried) EXCEPT !.pc = pc] = Sent(r, pc, tx, r.tried)
  BY DEF Sent
<1> QED
  BY <1>1, <1>2, <1>3, <1>4, Zenon

(* What failing over to the next provider does to a request. *)
LEMMA SentToTheNext ==
  ASSUME NEW r, Shaped(r), NEW pc, NEW tried
  PROVE  [r EXCEPT !.tried = tried, !.pc = pc] = Sent(r, pc, r.tx, tried)
<1>1. [r EXCEPT !.tried = tried, !.pc = pc] = [[r EXCEPT !.tried = tried] EXCEPT !.pc = pc]
  BY Zenon
<1>2. [r EXCEPT !.tried = tried] = Sent(r, r.pc, r.tx, tried)
  BY DEF Shaped, Sent
<1>3. [Sent(r, r.pc, r.tx, tried) EXCEPT !.pc = pc] = Sent(r, pc, r.tx, tried)
  BY DEF Sent
<1> QED
  BY <1>1, <1>2, <1>3, Zenon

(* A slot whose request is sent to a step other than the usage row. *)
LEMMA Redirected ==
  ASSUME MeterInv, NEW c \in Slots, Doing(c) \notin {"-", "meter"}, NEW pc, NEW tx, NEW tried,
         pc \in 1..Len(Steps(c)) + 1,
         pc <= Len(Steps(c)) => Steps(c)[pc] # "meter",
         Goto(c, Sent(at[c], pc, tx, tried))
  PROVE  MeterInv' /\ Spared(c)
<1> DEFINE s == Sent(at[c], pc, tx, tried)
<1>1. /\ s.on = at[c].on /\ s.pc = pc /\ s.did = at[c].did
      /\ Shaped(s)
  BY DEF Sent, Shaped
<1>2. StepOf(s) # "meter"
  BY <1>1 DEF StepOf, Steps
<1>3. "work" \in s.did <=> "usage" \in s.did
  BY <1>1, Serves DEF Good
<1>4. Good(s)
  BY <1>1, <1>2, <1>3 DEF Good, Steps
<1>5. at' = [at EXCEPT ![c] = s] /\ used' = kept' /\ UNCHANGED <<codes, links>>
  BY DEF Goto, MeterInv, accountVars
<1>6. s.on # "redeem"
  BY <1>1, Serves, ProgramKinds
<1> QED
  BY <1>1, <1>4, <1>5, <1>6, Replaced DEF Spared

(* Arrivals keep the metering; they spare codes and links, or redeem a code. *)
LEMMA Arrived ==
  ASSUME MeterInv, Arrival
  PROVE  /\ MeterInv'
         /\ \E c \in Slots :
              Spared(c) \/ \E tg \in TelegramUsers, k \in Codes : Redeem(c, tg, k)
<1>1. ASSUME NEW c \in Slots, NEW r, Start(c, r), UNCHANGED accountVars,
             r.on \in DOMAIN Program => Good(r)
      PROVE  MeterInv' /\ (r.on # "redeem" => Spared(c))
  <2>1. at' = [at EXCEPT ![c] = r] /\ used' = kept' /\ UNCHANGED <<codes, links>>
    BY <1>1 DEF Start, MeterInv, accountVars
  <2> QED
    BY <1>1, <2>1, Replaced DEF Spared
<1>2. ASSUME NEW k \in DOMAIN Program, NEW cx, NEW sender
      PROVE  Good(Begin(k, cx, sender)) /\ Begin(k, cx, sender).on # "redeem"
  <2>1. Begin(k, cx, sender).on = k
    BY DEF Begin
  <2> QED
    BY <2>1, Begun, ProgramKinds
<1>3. ASSUME NEW c \in Slots, NEW s, NEW t, NEW w, NEW k \in Surfaces, Arrive(c, k, s, t, w)
      PROVE  MeterInv' /\ Spared(c)
  BY <1>1, <1>2, <1>3, SurfacesAssumption DEF Arrive
<1>4. ASSUME NEW c \in Slots, NEW tg, ArriveTelegram(c, tg)
      PROVE  MeterInv' /\ Spared(c)
  BY <1>1, <1>2, <1>4, ProgramKinds DEF ArriveTelegram
<1>5. ASSUME NEW c \in Slots, NEW tg, NEW k, Redeem(c, tg, k)
      PROVE  MeterInv'
  <2> DEFINE r == [on |-> "redeem", sender |-> tg, code |-> k]
  <2>1. r.on \notin DOMAIN Program /\ Start(c, r) /\ UNCHANGED accountVars
    BY <1>5, ProgramKinds DEF Redeem
  <2> QED
    BY <1>1, <2>1
<1>6. ASSUME NEW c \in Slots, NEW u, NEW s, Admit(c, u, s)
      PROVE  MeterInv' /\ Spared(c)
  <2> DEFINE r == [on |-> "admit", user |-> u, from |-> s]
  <2>1. r.on \notin DOMAIN Program /\ r.on # "redeem" /\ Start(c, r) /\ UNCHANGED accountVars
    BY <1>6, ProgramKinds DEF Admit
  <2> QED
    BY <1>1, <2>1
<1> QED
  BY <1>3, <1>4, <1>5, <1>6 DEF Arrival

(* Every step of a request keeps the metering; it spares codes and links, or is the *)
(* linking.                                                                         *)
LEMMA Worked ==
  ASSUME MeterInv, NEW c \in Slots, Work(c)
  PROVE  MeterInv' /\ (Link(c) \/ Spared(c))
<1> DEFINE r == at[c]
<1>1. CASE CheckLimit(c)
  BY <1>1, GoesOn DEF CheckLimit, Statement
<1>2. CASE Recall(c)
  BY <1>2, GoesOn DEF Recall, Statement
<1>3. CASE Ask(c)
  <2>1. Doing(c) \in {"ask", "open"} /\ Goto(c, Wrote(r, Doing(c)))
    BY <1>3 DEF Ask, Statement
  <2> QED
    BY <2>1, Writes
<1>4. CASE Thread(c)
  BY <1>4, GoesOn, Writes DEF Thread, Statement
<1>5. CASE ModelAnswers(c)
  BY <1>5, GoesOn DEF ModelAnswers
<1>6. CASE NextProvider(c)
  <2> DEFINE pc == IF r.on = "plain" THEN 1 ELSE r.pc
  <2>1. Doing(c) = "model" /\ Goto(c, [r EXCEPT !.tried = r.tried + 1, !.pc = pc])
    BY <1>6 DEF NextProvider
  <2>2. r.on \in DOMAIN Program /\ Good(r) /\ StepOf(r) = "model"
    BY <2>1, Serves
  <2>3. pc \in 1..Len(Steps(c)) + 1 /\ (pc <= Len(Steps(c)) => Steps(c)[pc] # "meter")
    BY <2>2, ProgramStarts DEF Good, Steps, StepOf
  <2>4. Goto(c, Sent(r, pc, r.tx, r.tried + 1))
    <3> DEFINE tried == r.tried + 1
    <3> HIDE DEF pc, tried
    <3>1. [r EXCEPT !.tried = tried, !.pc = pc] = Sent(r, pc, r.tx, tried)
      BY <2>2, SentToTheNext, Zenon DEF Good
    <3> QED
      BY <2>1, <3>1, Zenon DEF tried
  <2> QED
    BY <2>1, <2>3, <2>4, Redirected
<1>7. CASE StreamGivesOut(c)
  <2>1. Doing(c) = "model" /\ Goto(c, [r EXCEPT !.pc = Len(Steps(c)) + 1])
    BY <1>7 DEF StreamGivesOut
  <2>2. r.on \in DOMAIN Program /\ Good(r)
    BY <2>1, Serves
  <2>3. /\ Len(Steps(c)) + 1 \in 1..Len(Steps(c)) + 1
        /\ ~(Len(Steps(c)) + 1 <= Len(Steps(c)))
    BY <2>2, ProgramStarts DEF Steps
  <2>4. Goto(c, Sent(r, Len(Steps(c)) + 1, r.tx, r.tried))
    BY <2>1, <2>2, SentOn, Zenon DEF Good
  <2> QED
    <3> HIDE DEF r
    <3> DEFINE pc == Len(Steps(c)) + 1
    <3>1. pc \in 1..Len(Steps(c)) + 1 /\ (pc <= Len(Steps(c)) => Steps(c)[pc] # "meter")
      BY <2>3
    <3>2. Goto(c, Sent(r, pc, r.tx, r.tried))
      BY <2>4
    <3> HIDE DEF pc
    <3> QED
      BY <2>1, <3>1, <3>2, Redirected DEF r
<1>8. CASE \E name \in Callable, failure \in Failure : CallTool(c, name, failure, Rows)
  <2> DEFINE pc == IF Doing(c) = "tool" THEN r.pc + 1 ELSE r.pc
  <2>0. PICK name, failure : CallTool(c, name, failure, Rows)
    BY <1>8
  <2> DEFINE tx == Dispatch(name, r.cx, r.tx, r.bound, Rows, failure).tx
  <2>1. Doing(c) \in {"tool", "browse"} /\ Goto(c, [r EXCEPT !.tx = tx, !.pc = pc])
    BY <2>0, Zenon DEF CallTool
  <2> HIDE DEF tx
  <2>2. r.on \in DOMAIN Program /\ Good(r) /\ StepOf(r) = Doing(c)
    BY <2>1, Serves
  <2>3. r.pc \in 1..Len(Program[r.on]) /\ Program[r.on][r.pc] = Doing(c)
    BY <2>1, <2>2, ProgramStarts DEF StepOf, Good
  <2>4. r.pc + 1 > Len(Program[r.on]) \/ Program[r.on][r.pc + 1] # "meter"
    BY <2>1, <2>2, <2>3, MeterFollowsWrite
  <2>5. pc \in 1..Len(Steps(c)) + 1 /\ (pc <= Len(Steps(c)) => Steps(c)[pc] # "meter")
    BY <2>1, <2>2, <2>3, <2>4, ProgramStarts DEF Steps
  <2>6. Goto(c, Sent(r, pc, tx, r.tried))
    <3> HIDE DEF pc
    <3> QED
      BY <2>1, <2>2, SentOn, Zenon DEF Good
  <2> QED
    BY <2>1, <2>5, <2>6, Redirected
<1>9. CASE Decide(c)
  BY <1>9, GoesOn DEF Decide
<1>10. CASE Trace(c)
  BY <1>10, GoesOn, Writes DEF Trace
<1>11. CASE Write(c)
  BY <1>11, Writes DEF Write, Statement
<1>12. CASE Meter(c)
  BY <1>12, Writes DEF Meter, Statement
<1>13. CASE Stamp(c)
  BY <1>13, GoesOn DEF Stamp, Statement
<1>14. CASE Commit(c)
  <2>1. r.on \in DOMAIN Program /\ Good(r) /\ StepOf(r) = "-"
    BY <1>14, ProgramStarts DEF Commit, Serving, Steps, MeterInv, StepOf
  <2>2. "work" \in Visible(c) <=> "usage" \in Visible(c)
    BY <2>1 DEF Good, Visible
  <2> QED
    BY <1>14, <2>2, Settled DEF Commit
<1>15. CASE Apologise(c)
  <2>1. Good(r) /\ StepOf(r) = Doing(c)
    BY <1>15, Serves DEF Apologise
  <2>2. Doing(c) \in {"thread", "limit", "recall", "model"}
          => ("work" \in Visible(c) <=> "usage" \in Visible(c))
    BY <2>1 DEF Good, Visible
  <2> QED
    BY <1>15, <2>2, Settled DEF Apologise
<1>16. CASE GiveUp(c)
  <2>1. at' = [at EXCEPT ![c] = Idle] /\ used' = kept' /\ UNCHANGED <<codes, links>>
    BY <1>16 DEF GiveUp, MeterInv, accountVars
  <2> QED
    BY <2>1, Emptied
<1>17. CASE Link(c)
  <2>1. at' = [at EXCEPT ![c] = Idle] /\ used' = kept' /\ Idle.on \notin DOMAIN Program
    BY <1>17, ProgramKinds DEF Link, MeterInv, Idle
  <2> QED
    BY <1>17, <2>1, Replaced
<1>18. CASE Grant(c)
  <2>1. at' = [at EXCEPT ![c] = Idle] /\ used' = kept' /\ UNCHANGED <<codes, links>>
    BY <1>18 DEF Grant, MeterInv
  <2> QED
    BY <2>1, Emptied
<1> QED
  BY <1>1, <1>2, <1>3, <1>4, <1>5, <1>6, <1>7, <1>8, <1>9, <1>10, <1>11, <1>12, <1>13, <1>14,
     <1>15, <1>16, <1>17, <1>18 DEF Work

(* The metering invariant is inductive. *)
LEMMA MeterInvHolds ==
  /\ Init => MeterInv
  /\ MeterInv /\ [Next]_vars => MeterInv'
<1>1. Init => MeterInv
  <2>1. Idle.on \notin DOMAIN Program
    BY ProgramKinds DEF Idle
  <2> QED
    BY <2>1 DEF Init, MeterInv, Serving
<1>2. MeterInv /\ [Next]_vars => MeterInv'
  <2> SUFFICES ASSUME MeterInv, [Next]_vars PROVE MeterInv'
    OBVIOUS
  <2>1. ASSUME UNCHANGED requestVars PROVE MeterInv'
    BY <2>1 DEF requestVars, MeterInv, Serving, Good, Shaped, StepOf
  <2>2. UNCHANGED vars => UNCHANGED requestVars
    BY DEF vars, requestVars
  <2> QED
    BY <2>1, <2>2, Arrived, Worked DEF Next
<1> QED
  BY <1>1, <1>2

(* Through failovers, swallowed errors, aborted transactions and lost clients, the usage *)
(* of the month counts exactly the answers, audited calls and analyses committed.        *)
THEOREM KeptIsMetered == Spec => []KeptWorkIsMetered
<1>1. MeterInv => KeptWorkIsMetered
  BY DEF MeterInv, KeptWorkIsMetered
<1> QED
  BY <1>1, MeterInvHolds, PTL DEF Spec

(* A request that holds the row of a link code. *)
Redeeming(c) == at[c].on = "redeem"

(* A code being redeemed is held by one request and admits nobody yet; a code with a live *)
(* link is consumed, and has one.                                                         *)
LinkInv ==
  /\ codes = [k \in Codes |-> codes[k]] /\ \A k \in Codes : "state" \in DOMAIN codes[k]
  /\ links = [tg \in TelegramUsers |-> links[tg]]
  /\ \A tg \in TelegramUsers : "live" \in DOMAIN links[tg]
  /\ \A tg \in TelegramUsers : links[tg].live =>
       links[tg].code \in Codes /\ codes[links[tg].code].state = "consumed"
  /\ \A c \in Slots : Redeeming(c) =>
       /\ at[c].sender \in TelegramUsers /\ at[c].code \in Codes
       /\ codes[at[c].code].state \in {"issued", "expired"}
  /\ \A c, d \in Slots : Redeeming(c) /\ Redeeming(d) /\ at[c].code = at[d].code => c = d
  /\ CodeLinksOneAccount

(* A step that spares codes and links keeps the invariant. *)
LEMMA SparedKeepsLinks ==
  ASSUME LinkInv, NEW c \in Slots, Spared(c)
  PROVE  LinkInv'
<1>1. codes' = codes /\ links' = links
  BY DEF Spared
<1>2. \A d \in Slots : Redeeming(d)' => at'[d] = at[d] /\ Redeeming(d)
  BY DEF Spared, Redeeming
<1> QED
  BY <1>1, <1>2 DEF LinkInv, CodeLinksOneAccount

(* A code that is found unlocked is held by nobody else. *)
LEMMA RedeemKeepsLinks ==
  ASSUME MeterInv, LinkInv, NEW c \in Slots, NEW tg \in TelegramUsers, NEW k \in Codes, Redeem(c, tg, k)
  PROVE  LinkInv'
<1> DEFINE r == [on |-> "redeem", sender |-> tg, code |-> k]
<1>1. /\ codes' = codes /\ links' = links /\ codes[k].state = "issued" /\ ~Locked(k)
      /\ at' = [at EXCEPT ![c] = r]
  BY DEF Redeem, Start, accountVars
<1>2. at'[c] = r /\ \A d \in Slots \ {c} : at'[d] = at[d]
  BY <1>1 DEF MeterInv
<1>3. \A d \in Slots : Redeeming(d) => at[d].code # k
  BY <1>1 DEF Locked, Redeeming
<1> QED
  BY <1>1, <1>2, <1>3 DEF LinkInv, CodeLinksOneAccount, Redeeming

(* The linking consumes the code its request held. *)
LEMMA LinkKeepsLinks ==
  ASSUME MeterInv, LinkInv, NEW c \in Slots, Link(c)
  PROVE  LinkInv'
<1> DEFINE tg == at[c].sender
           k == at[c].code
           link == [live |-> TRUE, cx |-> codes[k].cx, code |-> k]
<1>1. /\ tg \in TelegramUsers /\ k \in Codes /\ codes[k].state \in {"issued", "expired"}
      /\ Redeeming(c)
  BY DEF Link, LinkInv, Redeeming
<1>2. /\ codes' = [codes EXCEPT ![k].state = "consumed"]
      /\ links' = [links EXCEPT ![tg] = link]
      /\ at' = [at EXCEPT ![c] = Idle]
  BY DEF Link, Linked
<1>3. at'[c].on # "redeem" /\ \A d \in Slots \ {c} : at'[d] = at[d]
  BY <1>2 DEF MeterInv, Idle
<1>4. /\ codes' = [j \in Codes |-> codes'[j]]
      /\ codes'[k].state = "consumed" /\ "state" \in DOMAIN codes'[k]
      /\ \A j \in Codes \ {k} : codes'[j] = codes[j]
  BY <1>1, <1>2 DEF LinkInv
<1>5. /\ links' = [t \in TelegramUsers |-> links'[t]]
      /\ links'[tg].live /\ links'[tg].code = k /\ "live" \in DOMAIN links'[tg]
      /\ \A t \in TelegramUsers \ {tg} : links'[t] = links[t]
  BY <1>1, <1>2 DEF LinkInv
<1>6. \A t \in TelegramUsers : links[t].live => links[t].code # k
  BY <1>1 DEF LinkInv
<1>7. \A d \in Slots : Redeeming(d)' => Redeeming(d) /\ at'[d] = at[d] /\ at[d].code # k
  BY <1>1, <1>3 DEF LinkInv, Redeeming
<1>8. CodeLinksOneAccount'
  BY <1>5, <1>6 DEF CodeLinksOneAccount, LinkInv
<1> HIDE DEF tg, k, link
<1>9. \A t \in TelegramUsers : links'[t].live =>
        links'[t].code \in Codes /\ codes'[links'[t].code].state = "consumed"
  BY <1>1, <1>4, <1>5, <1>6 DEF LinkInv
<1>10. \A d \in Slots : Redeeming(d)' =>
         /\ at'[d].sender \in TelegramUsers /\ at'[d].code \in Codes
         /\ codes'[at'[d].code].state \in {"issued", "expired"}
  BY <1>4, <1>7 DEF LinkInv
<1>11. \A d, e \in Slots : Redeeming(d)' /\ Redeeming(e)' /\ at'[d].code = at'[e].code => d = e
  BY <1>7 DEF LinkInv
<1>12. \A j \in Codes : "state" \in DOMAIN codes'[j]
  BY <1>4 DEF LinkInv
<1>13. \A t \in TelegramUsers : "live" \in DOMAIN links'[t]
  BY <1>5 DEF LinkInv
<1> QED
  BY <1>4, <1>5, <1>8, <1>9, <1>10, <1>11, <1>12, <1>13 DEF LinkInv

(* The account handlers issue unused codes, let issued ones expire and end links. *)
LEMMA AccountsKeepLinks ==
  ASSUME LinkInv, AccountStep, UNCHANGED at
  PROVE  LinkInv'
<1>1. ASSUME UNCHANGED <<codes, links>> PROVE LinkInv'
  BY <1>1 DEF LinkInv, CodeLinksOneAccount, Redeeming
<1>2. ASSUME NEW k \in Codes, NEW row, "state" \in DOMAIN row,
             codes' = [codes EXCEPT ![k] = row], UNCHANGED links,
             codes[k].state = None \/ (codes[k].state = "issued" /\ row.state = "expired")
      PROVE  LinkInv'
  <2>1. /\ codes' = [j \in Codes |-> codes'[j]] /\ codes'[k] = row
        /\ \A j \in Codes \ {k} : codes'[j] = codes[j]
    BY <1>2 DEF LinkInv
  <2>2. \A tg \in TelegramUsers : links[tg].live => links[tg].code # k
    BY <1>2 DEF LinkInv, None
  <2>3. \A c \in Slots : Redeeming(c) /\ at[c].code = k => row.state = "expired"
    BY <1>2 DEF LinkInv, None
  <2> QED
    BY <1>2, <2>1, <2>2, <2>3 DEF LinkInv, CodeLinksOneAccount, Redeeming
<1>3. ASSUME NEW k \in Codes, NEW cx, IssueLinkCode(k, cx) PROVE LinkInv'
  <2> DEFINE row == [state |-> "issued", cx |-> cx]
  <2>1. codes[k].state = None /\ "state" \in DOMAIN row /\ codes' = [codes EXCEPT ![k] = row]
        /\ UNCHANGED links
    BY <1>3 DEF IssueLinkCode, Unissued
  <2> HIDE DEF row
  <2> QED
    BY <1>2, <2>1
<1>4. ASSUME NEW k \in Codes, LinkCodeExpires(k) PROVE LinkInv'
  <2> DEFINE row == [codes[k] EXCEPT !.state = "expired"]
  <2>1. /\ codes[k].state = "issued" /\ codes' = [codes EXCEPT ![k] = row] /\ UNCHANGED links
        /\ "state" \in DOMAIN row /\ row.state = "expired"
    BY <1>4 DEF LinkCodeExpires, LinkInv
  <2> HIDE DEF row
  <2> QED
    BY <1>2, <2>1
<1>5. ASSUME NEW tg \in TelegramUsers, NEW cx, RevokeLink(tg, cx) PROVE LinkInv'
  <2>1. /\ UNCHANGED codes /\ links' = [t \in TelegramUsers |-> links'[t]]
        /\ ~links'[tg].live /\ "live" \in DOMAIN links'[tg]
        /\ \A t \in TelegramUsers \ {tg} : links'[t] = links[t]
    BY <1>5 DEF RevokeLink, LinkInv
  <2> QED
    BY <2>1 DEF LinkInv, CodeLinksOneAccount, Redeeming
<1> QED
  BY <1>1, <1>3, <1>4, <1>5
  DEF AccountStep, Signup, VerifyEmail, RequestPasswordReset, ConfirmPasswordReset, TokenExpires,
      Logout, Join, CheckoutCompleted

(* The invariant of the link codes is inductive beside that of the metering. *)
LEMMA LinkInvHolds ==
  /\ Init => LinkInv
  /\ MeterInv /\ LinkInv /\ [Next]_vars => LinkInv'
<1>1. Init => LinkInv
  BY DEF Init, AccountsInit, LinkInv, CodeLinksOneAccount, Redeeming, Idle, Unissued, Unlinked
<1>2. MeterInv /\ LinkInv /\ [Next]_vars => LinkInv'
  <2> SUFFICES ASSUME MeterInv, LinkInv, [Next]_vars PROVE LinkInv'
    OBVIOUS
  <2>1. CASE AccountStep /\ UNCHANGED requestVars
    BY <2>1, AccountsKeepLinks DEF requestVars
  <2>2. CASE Arrival
    BY <2>2, Arrived, SparedKeepsLinks, RedeemKeepsLinks
  <2>3. CASE \E c \in Slots : Work(c)
    BY <2>3, Worked, SparedKeepsLinks, LinkKeepsLinks
  <2>4. CASE UNCHANGED vars
    BY <2>4 DEF vars, accountVars, requestVars, LinkInv, CodeLinksOneAccount, Redeeming
  <2> QED
    BY <2>1, <2>2, <2>3, <2>4 DEF Next
<1> QED
  BY <1>1, <1>2

(* A link code admits one Telegram account, however often and from wherever it is sent at *)
(* once: the row lock of consume_telegram_link_code is enough.                            *)
THEOREM CodesLinkOneAccount == Spec => []CodeLinksOneAccount
<1>1. LinkInv => CodeLinksOneAccount
  BY DEF LinkInv
<1> QED
  BY <1>1, MeterInvHolds, LinkInvHolds, PTL DEF Spec

(* Of some natural numbers one is the least. *)
LEMMA SomeLeast ==
  ASSUME NEW S, S \subseteq Nat, S # {}
  PROVE  \E n \in S : \A m \in S : n <= m
<1>1. PICK n \in S : \A m \in S : ~(<<m, n>> \in OpToRel(<, Nat))
  BY WFMin, NatLessThanWellFounded
<1>2. \A m \in S : ~(m < n)
  BY <1>1 DEF OpToRel
<1> QED
  BY <1>2

(* The plans an organization has had: the free one and those it bought. *)
Held(t) == {"FREE"} \cup {e.plan : e \in {f \in events : f.tenant = t}}

(* Where the current plan of an organization comes from, and that its limits have a largest. *)
AccountsInv ==
  /\ AccountsTypeOK
  /\ \A m \in members :
       /\ plan[m.tenant] # None
       /\ \E u \in Users : m.tenant = HomeOf[u].tenant /\ m.workspace = HomeOf[u].workspace
  /\ \A t \in Tenants : plan[t] # None => plan[t] \in Held(t)
  /\ \A t \in Tenants, m \in Metrics :
       \E p \in Held(t) : \A q \in Held(t) : Cap[q][m] <= Cap[p][m]

(* The workspace a request without a hint is about is one its user belongs to. *)
LEMMA DefaultIsMine ==
  ASSUME AccountsTypeOK, NEW u, NEW t, WorkspacesIn(u, t) # {}
  PROVE  DefaultWorkspace(u, t) \in WorkspacesIn(u, t)
<1> DEFINE ages == {Age[w] : w \in WorkspacesIn(u, t)}
<1>1. \A w \in WorkspacesIn(u, t) : w \in Workspaces
  BY DEF AccountsTypeOK, WorkspacesIn, Memberships
<1>2. \A w \in Workspaces : Age[w] \in Nat
  BY AgeAssumption DEF Workspaces
<1>3. ages \subseteq Nat /\ ages # {}
  BY <1>1, <1>2
<1>4. PICK n \in ages : \A m \in ages : n <= m
  BY <1>3, SomeLeast
<1>5. \E w \in WorkspacesIn(u, t) : \A v \in WorkspacesIn(u, t) : Age[w] =< Age[v]
  BY <1>4
<1> QED
  BY <1>5 DEF DefaultWorkspace

(* Whatever a client asks for, the scope of its request is a workspace its user belongs to. *)
LEMMA ResolvedScope ==
  ASSUME AccountsTypeOK, NEW u, NEW t, NEW w, NEW cx \in Resolve(u, t, w)
  PROVE  cx \in Context /\ cx.user = u /\ cx.workspace \in WorkspacesIn(cx.user, cx.tenant)
<1>1. PICK s \in TenantContexts(u, t) :
        /\ w = None \/ w \in WorkspacesIn(u, s)
        /\ cx = [user |-> u, tenant |-> s,
                 workspace |-> IF w = None THEN DefaultWorkspace(u, s) ELSE w]
  BY DEF Resolve
<1>2. PICK m \in members : m.user = u /\ m.tenant = s
  BY DEF TenantContexts, Memberships
<1>3. WorkspacesIn(u, s) # {}
  BY <1>2 DEF WorkspacesIn, Memberships
<1>4. cx.workspace \in WorkspacesIn(u, s) /\ cx.user = u /\ cx.tenant = s
  BY <1>1, <1>3, DefaultIsMine
<1>5. \A v \in WorkspacesIn(u, s) : v \in Workspaces
  BY DEF AccountsTypeOK, WorkspacesIn, Memberships
<1>6. u \in Users /\ s \in Tenants
  BY <1>2 DEF AccountsTypeOK
<1> QED
  BY <1>1, <1>4, <1>5, <1>6 DEF Context

(* Signing up gives a user a session, its own organization and workspace, and the free plan. *)
LEMMA SignupStep ==
  ASSUME AccountsInv, LinkInv, NEW u \in Users, Signup(u)
  PROVE  AccountsInv'
<1> DEFINE home == HomeOf[u]
           t0 == home.tenant
<1>1. /\ user' = [user EXCEPT ![u] = IF Mailer THEN "PENDING_VERIFICATION" ELSE "ACTIVE"]
      /\ members' = members \cup {Member(u, "ORG_OWNER", home)}
      /\ plan' = [plan EXCEPT ![t0] = IF plan[t0] = None THEN "FREE" ELSE plan[t0]]
      /\ tokens' \subseteq tokens \cup {[user |-> u, purpose |-> "EMAIL_VERIFY"]}
      /\ sessions' = Append(sessions, [user |-> u, live |-> TRUE])
      /\ UNCHANGED <<events, codes, links>>
  BY DEF Signup, Open
<1>2. t0 \in Tenants /\ home.workspace \in Workspaces
  BY DEF Tenants, Workspaces
<1> DEFINE own == Member(u, "ORG_OWNER", home)
<1>3. own.user = u /\ own.tenant = t0 /\ own.workspace = home.workspace
  BY DEF Member
<1>4. /\ plan \in [Tenants -> Plans \cup {None}] /\ "FREE" \in Plans
      /\ plan' \in [Tenants -> Plans \cup {None}] /\ plan'[t0] # None
      /\ \A t \in Tenants : plan'[t] = plan[t] \/ (plan[t] = None /\ plan'[t] = "FREE")
  BY <1>1, <1>2 DEF AccountsInv, AccountsTypeOK, Plans, None
<1>5. Held(t0)' = Held(t0) /\ \A t \in Tenants : Held(t)' = Held(t) /\ "FREE" \in Held(t)
  BY <1>1 DEF Held
<1>6. user' \in [Users -> {None, "PENDING_VERIFICATION", "ACTIVE"}]
  BY <1>1 DEF AccountsInv, AccountsTypeOK
<1>7. sessions' \in Seq([user : Users, live : BOOLEAN])
  BY <1>1 DEF AccountsInv, AccountsTypeOK
<1>8. tokens' \subseteq [user : Users, purpose : {"EMAIL_VERIFY", "PASSWORD_RESET"}]
  BY <1>1 DEF AccountsInv, AccountsTypeOK
<1>9. \A m \in members' : m \in members \/ m = own
  BY <1>1
<1>10. \A m \in members' : m.user \in Users /\ m.tenant \in Tenants /\ m.workspace \in Workspaces
  BY <1>2, <1>3, <1>9 DEF AccountsInv, AccountsTypeOK
<1>11. AccountsTypeOK'
  BY <1>1, <1>4, <1>6, <1>7, <1>8, <1>10 DEF AccountsInv, AccountsTypeOK
<1>12. \A m \in members' :
         /\ plan'[m.tenant] # None
         /\ \E v \in Users : m.tenant = HomeOf[v].tenant /\ m.workspace = HomeOf[v].workspace
  <2> SUFFICES ASSUME NEW m \in members'
               PROVE  /\ plan'[m.tenant] # None
                      /\ \E v \in Users : m.tenant = HomeOf[v].tenant /\ m.workspace = HomeOf[v].workspace
    OBVIOUS
  <2>1. CASE m = own
    BY <1>3, <1>4, <2>1
  <2>2. CASE m \in members
    BY <1>4, <2>2 DEF AccountsInv, AccountsTypeOK, None
  <2> QED
    BY <1>9, <2>1, <2>2
<1>13. \A t \in Tenants : plan'[t] # None => plan'[t] \in Held(t)'
  BY <1>4, <1>5 DEF AccountsInv
<1> QED
  BY <1>5, <1>11, <1>12, <1>13 DEF AccountsInv

(* A completed checkout changes the plan to the one it names. *)
LEMMA CheckoutStep ==
  ASSUME AccountsInv, LinkInv, NEW e \in Checkouts, CheckoutCompleted(e)
  PROVE  AccountsInv' /\ \A t \in Tenants : Held(t) \subseteq Held(t)'
<1>1. /\ events' = events \cup {e} /\ plan[e.tenant] # None
      /\ plan' = [plan EXCEPT ![e.tenant] = e.plan]
      /\ UNCHANGED <<user, sessions, tokens, members, codes, links>>
  BY DEF CheckoutCompleted
<1>2. e.plan \in Plans /\ e.plan # None
  BY CheckoutsAssumption DEF Plans
<1>3. /\ plan \in [Tenants -> Plans \cup {None}]
      /\ plan' \in [Tenants -> Plans \cup {None}]
      /\ \A t \in Tenants : (plan'[t] = plan[t] /\ t # e.tenant) \/ (plan'[t] = e.plan /\ t = e.tenant)
  BY <1>1, <1>2 DEF AccountsInv, AccountsTypeOK
<1>4. \A t \in Tenants : Held(t)' = IF t = e.tenant THEN Held(t) \cup {e.plan} ELSE Held(t)
  BY <1>1 DEF Held
<1>5. AccountsTypeOK'
  BY <1>1, <1>3 DEF AccountsInv, AccountsTypeOK
<1>6. \A m \in members' : plan'[m.tenant] # None
  BY <1>1, <1>2, <1>3 DEF AccountsInv, AccountsTypeOK
<1>7. \A t \in Tenants : plan'[t] # None => plan'[t] \in Held(t)'
  BY <1>3, <1>4 DEF AccountsInv
<1>8. \A t \in Tenants : Held(t) \subseteq Plans
  BY DEF AccountsInv, AccountsTypeOK, Held, Plans
<1>9. \A t \in Tenants, m \in Metrics :
        \E p \in Held(t)' : \A q \in Held(t)' : Cap[q][m] <= Cap[p][m]
  <2> SUFFICES ASSUME NEW t \in Tenants, NEW m \in Metrics
               PROVE  \E p \in Held(t)' : \A q \in Held(t)' : Cap[q][m] <= Cap[p][m]
    OBVIOUS
  <2>1. PICK p \in Held(t) : \A q \in Held(t) : Cap[q][m] <= Cap[p][m]
    BY DEF AccountsInv
  <2>2. Cap[p][m] \in Nat /\ Cap[e.plan][m] \in Nat /\ \A q \in Held(t) : Cap[q][m] \in Nat
    BY <1>2, <1>8, <2>1, CapAssumption
  <2>3. CASE Cap[e.plan][m] <= Cap[p][m]
    BY <1>4, <2>1, <2>2, <2>3
  <2>4. CASE Cap[p][m] < Cap[e.plan][m] /\ t = e.tenant
    <3>1. \A q \in Held(t)' : Cap[q][m] <= Cap[e.plan][m]
      BY <1>4, <2>1, <2>2, <2>4
    <3> QED
      BY <1>4, <2>4, <3>1
  <2>5. CASE t # e.tenant
    BY <1>4, <2>1, <2>5
  <2> QED
    BY <2>2, <2>3, <2>4, <2>5
<1> QED
  BY <1>1, <1>4, <1>5, <1>6, <1>7, <1>9 DEF AccountsInv

(* Revoking sessions leaves a list of sessions. *)
LEMMA RevokedTyped ==
  ASSUME AccountsTypeOK, NEW which
  PROVE  Revoked(which) \in Seq([user : Users, live : BOOLEAN])
<1> DEFINE Session == [user : Users, live : BOOLEAN]
<1>1. sessions \in Seq(Session)
  BY DEF AccountsTypeOK
<1>2. \A x \in Session : [x EXCEPT !.live = FALSE] \in Session
  OBVIOUS
<1> HIDE DEF Session
<1>3. \A s \in DOMAIN sessions : sessions[s] \in Session /\ [sessions[s] EXCEPT !.live = FALSE] \in Session
  BY <1>1, <1>2
<1>4. /\ DOMAIN Revoked(which) = DOMAIN sessions
      /\ \A s \in DOMAIN sessions : Revoked(which)[s] \in Session
  BY <1>3 DEF Revoked
<1>5. Revoked(which) \in Seq(Session)
  BY <1>1, <1>4 DEF Revoked
<1> QED
  BY <1>5 DEF Session

(* The other handlers of accounts change no plan and add only invited members. *)
LEMMA AccountsStep ==
  ASSUME AccountsInv, LinkInv, AccountStep
  PROVE  AccountsInv' /\ members \subseteq members' /\ \A t \in Tenants : Held(t) \subseteq Held(t)'
<1>1. ASSUME UNCHANGED <<plan, events, members>>, AccountsTypeOK'
      PROVE  AccountsInv' /\ members \subseteq members' /\ \A t \in Tenants : Held(t) \subseteq Held(t)'
  BY <1>1 DEF AccountsInv, Held
<1> DEFINE Goal == AccountsInv' /\ members \subseteq members' /\ \A t \in Tenants : Held(t) \subseteq Held(t)'
           Session == [user : Users, live : BOOLEAN]
<1>2. ASSUME NEW which PROVE Revoked(which) \in Seq(Session)
  BY RevokedTyped DEF AccountsInv
<1>3. ASSUME NEW u \in Users, Signup(u) PROVE Goal
  BY <1>3, SignupStep DEF Signup, Held
<1>4. ASSUME NEW u \in Users, VerifyEmail(u) PROVE Goal
  <2>1. AccountsTypeOK'
    BY <1>4 DEF VerifyEmail, AccountsInv, AccountsTypeOK
  <2> QED
    BY <1>1, <1>4, <2>1 DEF VerifyEmail
<1>5. ASSUME NEW u \in Users, RequestPasswordReset(u) PROVE Goal
  <2>1. AccountsTypeOK'
    BY <1>5 DEF RequestPasswordReset, AccountsInv, AccountsTypeOK
  <2> QED
    BY <1>1, <1>5, <2>1 DEF RequestPasswordReset
<1>6. ASSUME NEW u \in Users, ConfirmPasswordReset(u) PROVE Goal
  <2>1. sessions' \in Seq(Session)
    BY <1>2, <1>6 DEF ConfirmPasswordReset
  <2>2. AccountsTypeOK'
    BY <1>6, <2>1 DEF ConfirmPasswordReset, AccountsInv, AccountsTypeOK
  <2> QED
    BY <1>1, <1>6, <2>2 DEF ConfirmPasswordReset
<1>7. ASSUME NEW t \in tokens, TokenExpires(t) PROVE Goal
  <2>1. AccountsTypeOK'
    BY <1>7 DEF TokenExpires, AccountsInv, AccountsTypeOK
  <2> QED
    BY <1>1, <1>7, <2>1 DEF TokenExpires
<1>8. ASSUME NEW s, Logout(s) PROVE Goal
  <2>1. sessions' \in Seq(Session)
    BY <1>2, <1>8 DEF Logout
  <2>2. AccountsTypeOK'
    BY <1>8, <2>1 DEF Logout, AccountsInv, AccountsTypeOK
  <2> QED
    BY <1>1, <1>8, <2>2 DEF Logout
<1>9. ASSUME NEW m \in Invitations, Join(m) PROVE Goal
  <2>1. /\ members' = members \cup {m} /\ plan[m.tenant] # None
        /\ UNCHANGED <<user, sessions, tokens, plan, events, codes, links>>
    BY <1>9 DEF Join
  <2>2. m.user \in Users /\ \E u \in Users : m.tenant = HomeOf[u].tenant /\ m.workspace = HomeOf[u].workspace
    BY InvitationsAssumption
  <2>3. m.tenant \in Tenants /\ m.workspace \in Workspaces
    BY <2>2 DEF Tenants, Workspaces
  <2>4. AccountsTypeOK'
    BY <2>1, <2>2, <2>3 DEF AccountsInv, AccountsTypeOK
  <2> QED
    BY <2>1, <2>2, <2>4 DEF AccountsInv, Held
<1>10. ASSUME NEW e \in Checkouts, CheckoutCompleted(e) PROVE Goal
  BY <1>10, CheckoutStep DEF CheckoutCompleted
<1>11. ASSUME NEW k \in Codes, LinkCodeExpires(k) PROVE Goal
  <2>1. \A j \in Codes : codes'[j].state \in {None, "issued", "expired", "consumed"}
    BY <1>11 DEF LinkCodeExpires, AccountsInv, AccountsTypeOK, LinkInv
  <2>2. AccountsTypeOK'
    BY <1>11, <2>1 DEF LinkCodeExpires, AccountsInv, AccountsTypeOK
  <2> QED
    BY <1>1, <1>11, <2>2 DEF LinkCodeExpires
<1>12. ASSUME NEW k \in Codes, NEW cx, IssueLinkCode(k, cx) PROVE Goal
  <2>1. \A j \in Codes : codes'[j].state \in {None, "issued", "expired", "consumed"}
    BY <1>12 DEF IssueLinkCode, AccountsInv, AccountsTypeOK, LinkInv
  <2>2. AccountsTypeOK'
    BY <1>12, <2>1 DEF IssueLinkCode, AccountsInv, AccountsTypeOK
  <2> QED
    BY <1>1, <1>12, <2>2 DEF IssueLinkCode
<1>13. ASSUME NEW tg \in TelegramUsers, NEW cx, RevokeLink(tg, cx) PROVE Goal
  <2>1. \A t \in TelegramUsers : links'[t].live \in BOOLEAN
    BY <1>13 DEF RevokeLink, AccountsInv, AccountsTypeOK, LinkInv
  <2>2. AccountsTypeOK'
    BY <1>13, <2>1 DEF RevokeLink, AccountsInv, AccountsTypeOK
  <2> QED
    BY <1>1, <1>13, <2>2 DEF RevokeLink
<1> HIDE DEF Goal
<1>14. Goal
  BY <1>3, <1>4, <1>5, <1>6, <1>7, <1>8, <1>9, <1>10, <1>11, <1>12, <1>13 DEF AccountStep
<1> QED
  BY <1>14 DEF Goal

(* In the program of every entrance the limit is read before the model answers and before the *)
(* usage is written, and the usage after the model has answered.                               *)
LEMMA ProgramOrder ==
  ASSUME NEW k \in DOMAIN Program, NEW i \in 1..Len(Program[k]) + 1
  PROVE  /\ i <= Len(Program[k]) /\ Program[k][i] = "model"
              => /\ \E j \in 1..i - 1 : Program[k][j] = "limit"
                 /\ ~\E j \in 1..i - 1 : Program[k][j] = "meter"
         /\ (\E j \in 1..i - 1 : Program[k][j] = "meter") => \E j \in 1..i - 1 : Program[k][j] = "limit"
  <1>1. CASE k = "plain"
    BY <1>1, SMTT(20) DEF Program, PlainTurn
  <1>2. CASE k = "stream"
    BY <1>2, SMTT(20) DEF Program, StreamedTurn
  <1>3. CASE k = "telegram"
    BY <1>3, SMTT(20) DEF Program, TelegramTurn
  <1>4. CASE k = "mcp"
    BY <1>4, SMTT(20) DEF Program, McpCall
  <1>5. CASE k = "analysis"
    BY <1>5, SMTT(20) DEF Program, AnalysisRun
  <1> QED
    BY <1>1, <1>2, <1>3, <1>4, <1>5, ProgramKinds

(* A failed statement aborts the transaction; no call of a tool repairs one. *)
LEMMA DispatchedTx ==
  ASSUME NEW name, NEW cx, NEW tx, NEW bound, NEW owners, NEW failure
  PROVE  Dispatch(name, cx, tx, bound, owners, failure).tx \in {tx, "aborted"}
  BY DEF Dispatch

(* What a step makes of a request that goes on: its scope stays, an aborted transaction stays *)
(* aborted, a provider is tried at most once, usage is written by the metering step alone,    *)
(* and only the step of the model is left otherwise than for the next one.                    *)
Onward(r, s) ==
  /\ StepOf(r) # "-"
  /\ s.on = r.on /\ s.cx = r.cx /\ s.bound = r.bound
  /\ s.tx \in {r.tx, "aborted"}
  /\ s.tried = r.tried \/ (s.tried = r.tried + 1 /\ s.tried < Providers)
  /\ \/ s.did = r.did
     \/ "usage" \notin s.did
     \/ StepOf(r) = "meter" /\ s.pc = r.pc + 1
     \/ "usage" \in r.did /\ s.pc = r.pc + 1
  /\ s.pc \in {r.pc, r.pc + 1} \/ (StepOf(r) = "model" /\ s.pc \in {1, Len(Program[r.on]) + 1})

(* Advancing, poisoning and writing lead onward. *)
LEMMA MovesOnward ==
  ASSUME MeterInv, NEW c \in Slots, Doing(c) # "-", NEW row, row = "usage" => Doing(c) = "meter"
  PROVE  /\ Onward(at[c], Advance(at[c]))
         /\ Onward(at[c], Poisoned(at[c]))
         /\ Onward(at[c], Wrote(at[c], row))
<1> DEFINE r == at[c]
<1>1. Shaped(r) /\ StepOf(r) = Doing(c)
  BY Serves DEF Good
<1>2. ASSUME NEW tx \in {r.tx, "aborted"}, NEW did,
             did = r.did \/ "usage" \notin did \/ StepOf(r) = "meter" \/ "usage" \in r.did
      PROVE  Onward(r, Moved(r, tx, did))
  BY <1>1, <1>2 DEF Onward, Moved
<1>3. /\ Onward(r, Moved(r, r.tx, r.did))
      /\ Onward(r, Moved(r, "aborted", r.did))
      /\ Onward(r, Moved(r, r.tx, r.did \cup {row}))
  BY <1>1, <1>2
<1> QED
  BY <1>1, <1>3, MovedOn

(* Jumping, failing over and calling a tool lead onward. *)
LEMMA SentOnward ==
  ASSUME NEW r, NEW pc, NEW tx \in {r.tx, "aborted"}, NEW tried, StepOf(r) # "-",
         tried = r.tried \/ (tried = r.tried + 1 /\ tried < Providers),
         pc \in {r.pc, r.pc + 1} \/ (StepOf(r) = "model" /\ pc \in {1, Len(Program[r.on]) + 1})
  PROVE  Onward(r, Sent(r, pc, tx, tried))
  BY DEF Onward, Sent

(* A request goes on, or is settled with rows it wrote. *)
GoesOnward(c) ==
  \E s : /\ Goto(c, s) /\ Serving(c) /\ Onward(at[c], s)
         /\ StepOf(at[c]) = "limit" => Remaining(at[c].cx, Metric[at[c].on]) >= 1
SettlesDone(c) == \E rows : Settle(c, rows) /\ Serving(c) /\ rows \subseteq at[c].did

(* A request goes on, is settled with rows it wrote, is given up, links or is granted. *)
LEMMA WorkKinds ==
  ASSUME MeterInv, NEW c \in Slots, Work(c)
  PROVE  GoesOnward(c) \/ SettlesDone(c) \/ GiveUp(c) \/ Link(c) \/ Grant(c)
<1> DEFINE r == at[c]
<1>0. ASSUME Doing(c) # "-", NEW s, Goto(c, s), Onward(r, s),
             Doing(c) = "limit" => Remaining(r.cx, Metric[r.on]) >= 1
      PROVE  GoesOnward(c)
  BY <1>0, Serves DEF GoesOnward, Serving
<1>1. CASE CheckLimit(c)
  <2>1. Goto(c, Advance(r)) /\ Doing(c) = "limit" /\ Remaining(r.cx, Metric[r.on]) >= 1
    BY <1>1 DEF CheckLimit, Statement
  <2> QED
    BY <1>0, <2>1, MovesOnward
<1>2. CASE Recall(c) \/ Ask(c) \/ Thread(c) \/ ModelAnswers(c)
  <2>1. /\ Doing(c) \in {"recall", "ask", "open", "thread", "model"}
        /\ \/ Goto(c, Advance(r)) \/ Goto(c, Poisoned(r))
           \/ Goto(c, Wrote(r, Doing(c))) \/ Goto(c, Wrote(r, "thread"))
    BY <1>2 DEF Recall, Ask, Thread, ModelAnswers, Statement
  <2> QED
    BY <1>0, <2>1, MovesOnward
<1>3. CASE Decide(c) \/ Trace(c) \/ Write(c) \/ Meter(c) \/ Stamp(c)
  <2>1. \/ /\ Doing(c) \in {"browse", "trace", "stamp", "write"}
           /\ \/ Goto(c, Advance(r)) \/ Goto(c, Poisoned(r))
              \/ Goto(c, Wrote(r, "trace")) \/ Goto(c, Wrote(r, "work"))
        \/ Doing(c) = "meter" /\ Goto(c, Wrote(r, "usage"))
    BY <1>3 DEF Decide, Trace, Write, Meter, Stamp, Statement
  <2> QED
    BY <1>0, <2>1, MovesOnward
<1>4. CASE NextProvider(c)
  <2> DEFINE pc == IF r.on = "plain" THEN 1 ELSE r.pc
             tried == r.tried + 1
  <2>1. Doing(c) = "model" /\ Goto(c, [r EXCEPT !.tried = tried, !.pc = pc]) /\ tried < Providers
    BY <1>4 DEF NextProvider
  <2>2. Good(r) /\ StepOf(r) = "model"
    BY <2>1, Serves
  <2>3. pc \in {r.pc, r.pc + 1} \/ pc \in {1, Len(Program[r.on]) + 1}
    OBVIOUS
  <2>4. tried = r.tried \/ (tried = r.tried + 1 /\ tried < Providers)
    BY <2>1
  <2> HIDE DEF pc, tried
  <2>5. Goto(c, Sent(r, pc, r.tx, tried))
    BY <2>1, <2>2, SentToTheNext, Zenon DEF Good
  <2>6. Onward(r, Sent(r, pc, r.tx, tried))
    BY <2>2, <2>3, <2>4, SentOnward
  <2> QED
    BY <1>0, <2>1, <2>5, <2>6
<1>5. CASE StreamGivesOut(c)
  <2> DEFINE pc == Len(Program[r.on]) + 1
  <2>1. Doing(c) = "model" /\ Goto(c, [r EXCEPT !.pc = pc])
    BY <1>5 DEF StreamGivesOut, Steps
  <2>2. Good(r) /\ StepOf(r) = "model"
    BY <2>1, Serves
  <2>3. pc \in {1, Len(Program[r.on]) + 1}
    OBVIOUS
  <2> HIDE DEF pc
  <2>4. Goto(c, Sent(r, pc, r.tx, r.tried))
    BY <2>1, <2>2, SentOn, Zenon DEF Good
  <2>5. Onward(r, Sent(r, pc, r.tx, r.tried))
    BY <2>2, <2>3, SentOnward
  <2> QED
    BY <1>0, <2>1, <2>4, <2>5
<1>6. CASE \E name \in Callable, failure \in Failure : CallTool(c, name, failure, Rows)
  <2> DEFINE pc == IF Doing(c) = "tool" THEN r.pc + 1 ELSE r.pc
  <2>0. PICK name, failure : CallTool(c, name, failure, Rows)
    BY <1>6
  <2> DEFINE tx == Dispatch(name, r.cx, r.tx, r.bound, Rows, failure).tx
  <2>1. Doing(c) \in {"tool", "browse"} /\ Goto(c, [r EXCEPT !.tx = tx, !.pc = pc])
    BY <2>0, Zenon DEF CallTool
  <2>2. Good(r) /\ StepOf(r) = Doing(c)
    BY <2>1, Serves
  <2>3. pc \in {r.pc, r.pc + 1} /\ tx \in {r.tx, "aborted"}
    BY DispatchedTx
  <2> HIDE DEF pc, tx
  <2>4. Goto(c, Sent(r, pc, tx, r.tried))
    BY <2>1, <2>2, SentOn, Zenon DEF Good
  <2>5. Onward(r, Sent(r, pc, tx, r.tried))
    BY <2>1, <2>2, <2>3, SentOnward
  <2> QED
    BY <1>0, <2>1, <2>4, <2>5
<1>7. CASE Commit(c) \/ Apologise(c)
  <2>1. Serving(c) /\ (Settle(c, Visible(c)) \/ Settle(c, {}))
    BY <1>7 DEF Commit, Apologise
  <2>2. Visible(c) \subseteq r.did
    BY DEF Visible
  <2> QED
    BY <2>1, <2>2 DEF SettlesDone
<1> QED
  BY <1>1, <1>2, <1>3, <1>4, <1>5, <1>6, <1>7 DEF Work

(* A step of its program that a request has passed. *)
PastStep(r, step) == \E j \in 1..r.pc - 1 : Program[r.on][j] = step

(* A request keeps the scope it was resolved in, its transaction bound to that workspace, *)
(* and has no usage row before it has passed the metering step.                           *)
Scoped(r) ==
  /\ r.cx \in Context /\ r.bound = r.cx.workspace /\ r.tx \in {"clean", "aborted"}
  /\ r.tried \in 0..Providers - 1
  /\ "usage" \in r.did => PastStep(r, "meter")

(* What the requests of all slots and the totals look like. *)
RequestsInv ==
  /\ \A c \in Slots : Serving(c) =>
       Scoped(at[c]) /\ at[c].cx.workspace \in WorkspacesIn(at[c].cx.user, at[c].cx.tenant)
  /\ \A c \in Slots : at[c].on = "admit" => at[c].user \in Users
  /\ used \in [Workspaces -> [Metrics -> Nat]]
  /\ kept \in [Workspaces -> [Metrics -> Nat]]
  /\ threads \in [TelegramUsers -> Nat]
  /\ started \in 0..MaxRequests

(* The requests of a workspace that have been let past a limit. *)
Passed(w, m) ==
  {c \in Slots : Serving(c) /\ at[c].cx.workspace = w /\ Metric[at[c].on] = m /\ PastStep(at[c], "limit")}

(* The usage of the month and the requests that may still add to it stay, together, within the *)
(* limit and one less than the slots.                                                          *)
OverdraftInv ==
  \A u \in Users, m \in Metrics :
    used[HomeOf[u].workspace][m] + Cardinality(Passed(HomeOf[u].workspace, m))
      =< LargestCap(HomeOf[u].tenant, m) + Cardinality(Slots) - 1

(* One slot gets a request in the scope of its user; the invariant holds again. *)
LEMMA SlotReplaced ==
  ASSUME MeterInv, RequestsInv, NEW c \in Slots, NEW r, at' = [at EXCEPT ![c] = r],
         UNCHANGED members,
         r.on \in DOMAIN Program =>
           Scoped(r) /\ r.cx.workspace \in WorkspacesIn(r.cx.user, r.cx.tenant),
         r.on = "admit" => r.user \in Users,
         used' \in [Workspaces -> [Metrics -> Nat]],
         kept' \in [Workspaces -> [Metrics -> Nat]],
         threads' \in [TelegramUsers -> Nat],
         started' \in 0..MaxRequests
  PROVE  RequestsInv'
<1>1. at'[c] = r /\ \A d \in Slots \ {c} : at'[d] = at[d]
  BY DEF MeterInv
<1>2. \A u, t : WorkspacesIn(u, t)' = WorkspacesIn(u, t)
  BY DEF WorkspacesIn, Memberships
<1>3. ASSUME NEW d \in Slots
      PROVE  /\ Serving(d)' => (/\ Scoped(at[d])
                                /\ at[d].cx.workspace \in WorkspacesIn(at[d].cx.user, at[d].cx.tenant))'
             /\ at'[d].on = "admit" => at'[d].user \in Users
  <2>1. CASE d = c
    BY <1>1, <1>2, <2>1 DEF Serving, Scoped, PastStep
  <2>2. CASE d # c
    BY <1>1, <1>2, <2>2 DEF RequestsInv, Serving, Scoped, PastStep
  <2> QED
    BY <2>1, <2>2
<1> QED
  BY <1>3 DEF RequestsInv

(* A slot that is emptied, the totals kept or raised. *)
LEMMA SlotEmptied ==
  ASSUME MeterInv, RequestsInv, NEW c \in Slots, at' = [at EXCEPT ![c] = Idle],
         UNCHANGED <<members, started>>,
         used' \in [Workspaces -> [Metrics -> Nat]],
         kept' \in [Workspaces -> [Metrics -> Nat]],
         threads' \in [TelegramUsers -> Nat]
  PROVE  RequestsInv'
<1>1. Idle.on \notin DOMAIN Program /\ Idle.on # "admit"
  BY ProgramKinds DEF Idle
<1>2. started' \in 0..MaxRequests
  BY DEF RequestsInv
<1> QED
  BY <1>1, <1>2, SlotReplaced

(* A request begins in the scope that was resolved for its user. *)
LEMMA ArrivedScoped ==
  ASSUME MeterInv, AccountsInv, RequestsInv, Arrival
  PROVE  RequestsInv'
<1>1. ASSUME NEW c \in Slots, NEW r, Start(c, r), UNCHANGED accountVars,
             r.on \in DOMAIN Program =>
               Scoped(r) /\ r.cx.workspace \in WorkspacesIn(r.cx.user, r.cx.tenant),
             r.on = "admit" => r.user \in Users
      PROVE  RequestsInv'
  <2>1. /\ at' = [at EXCEPT ![c] = r] /\ UNCHANGED <<members, used, kept, threads>>
        /\ started' = started + 1 /\ started < MaxRequests
    BY <1>1 DEF Start, accountVars
  <2>2. /\ used' \in [Workspaces -> [Metrics -> Nat]] /\ kept' \in [Workspaces -> [Metrics -> Nat]]
        /\ threads' \in [TelegramUsers -> Nat] /\ started' \in 0..MaxRequests
    BY <2>1, BoundsAssumption DEF RequestsInv
  <2> QED
    BY <1>1, <2>1, <2>2, SlotReplaced
<1>2. ASSUME NEW k \in DOMAIN Program, NEW u, NEW t, NEW w, NEW cx \in Resolve(u, t, w), NEW sender
      PROVE  LET r == Begin(k, cx, sender)
             IN  /\ Scoped(r) /\ r.cx.workspace \in WorkspacesIn(r.cx.user, r.cx.tenant)
                 /\ r.on # "admit"
  <2> DEFINE r == Begin(k, cx, sender)
  <2>1. cx \in Context /\ cx.workspace \in WorkspacesIn(cx.user, cx.tenant)
    BY <1>2, ResolvedScope DEF AccountsInv
  <2>2. /\ r.on = k /\ r.cx = cx /\ r.bound = cx.workspace /\ r.tx = "clean" /\ r.tried = 0
        /\ "usage" \notin r.did
    BY DEF Begin
  <2>3. Scoped(r)
    BY <2>1, <2>2, BoundsAssumption DEF Scoped
  <2> QED
    BY <2>1, <2>2, <2>3, ProgramKinds
<1>3. ASSUME NEW c \in Slots, NEW k \in Surfaces, NEW s, NEW t, NEW w, Arrive(c, k, s, t, w)
      PROVE  RequestsInv'
  <2>1. PICK cx \in Resolve(sessions[s].user, t, w) : Start(c, Begin(k, cx, None)) /\ UNCHANGED accountVars
    BY <1>3 DEF Arrive
  <2> QED
    BY <1>1, <1>2, <2>1, SurfacesAssumption
<1>4. ASSUME NEW c \in Slots, NEW tg, ArriveTelegram(c, tg)
      PROVE  RequestsInv'
  <2>1. PICK cx \in Resolve(links[tg].cx.user, None, None) :
          Start(c, Begin("telegram", cx, tg)) /\ UNCHANGED accountVars
    BY <1>4 DEF ArriveTelegram, LinkedContexts
  <2> QED
    BY <1>1, <1>2, <2>1, ProgramKinds
<1>5. ASSUME NEW c \in Slots, NEW tg, NEW k, Redeem(c, tg, k)
      PROVE  RequestsInv'
  <2> DEFINE r == [on |-> "redeem", sender |-> tg, code |-> k]
  <2>1. r.on \notin DOMAIN Program /\ r.on # "admit" /\ Start(c, r) /\ UNCHANGED accountVars
    BY <1>5, ProgramKinds DEF Redeem
  <2> QED
    BY <1>1, <2>1
<1>6. ASSUME NEW c \in Slots, NEW u \in Users, NEW s, Admit(c, u, s)
      PROVE  RequestsInv'
  <2> DEFINE r == [on |-> "admit", user |-> u, from |-> s]
  <2>1. r.on \notin DOMAIN Program /\ r.user = u /\ Start(c, r) /\ UNCHANGED accountVars
    BY <1>6, ProgramKinds DEF Admit
  <2> QED
    BY <1>1, <2>1
<1> QED
  BY <1>3, <1>4, <1>5, <1>6 DEF Arrival

(* A request that goes onward stays in its scope, and has passed the metering step when it has *)
(* a usage row.                                                                                 *)
LEMMA OnwardScoped ==
  ASSUME NEW r, NEW s, r.on \in DOMAIN Program, Good(r), Scoped(r), Onward(r, s)
  PROVE  Scoped(s)
<1>1. r.pc \in 1..Len(Program[r.on]) /\ StepOf(r) = Program[r.on][r.pc]
  BY ProgramStarts DEF Good, StepOf, Onward
<1>2. s.pc = r.pc + 1 => (PastStep(s, "meter") <=> PastStep(r, "meter") \/ StepOf(r) = "meter")
  BY <1>1 DEF PastStep, Onward
<1>3. s.pc = r.pc => (PastStep(s, "meter") <=> PastStep(r, "meter"))
  BY DEF PastStep, Onward
<1>4. StepOf(r) = "model" => ~PastStep(r, "meter")
  <2>1. r.pc \in 1..Len(Program[r.on]) + 1 /\ r.pc <= Len(Program[r.on])
    BY <1>1, ProgramStarts
  <2>2. Program[r.on][r.pc] = "model" => ~\E j \in 1..r.pc - 1 : Program[r.on][j] = "meter"
    BY <2>1, ProgramOrder
  <2> QED
    BY <1>1, <2>2 DEF PastStep
<1>5. "usage" \in s.did => PastStep(s, "meter")
  BY <1>2, <1>3, <1>4 DEF Onward, Scoped
<1>6. s.tried \in 0..Providers - 1
  BY BoundsAssumption DEF Onward, Scoped
<1> QED
  BY <1>5, <1>6 DEF Onward, Scoped

(* Every step of a request keeps accounts and requests as they have to be. *)
LEMMA WorkedScoped ==
  ASSUME MeterInv, LinkInv, AccountsInv, RequestsInv, NEW c \in Slots, Work(c)
  PROVE  AccountsInv' /\ RequestsInv' /\ UNCHANGED <<members, events, plan>>
<1> DEFINE r == at[c]
<1>0. ASSUME UNCHANGED accountVars PROVE AccountsInv' /\ UNCHANGED <<members, events, plan>>
  BY <1>0 DEF accountVars, AccountsInv, AccountsTypeOK, Held
<1>1. CASE GoesOnward(c)
  <2>1. PICK s : Goto(c, s) /\ Serving(c) /\ Onward(r, s)
    BY <1>1 DEF GoesOnward
  <2>2. r.on \in DOMAIN Program /\ Good(r) /\ Scoped(r)
    BY <2>1 DEF Serving, MeterInv, RequestsInv
  <2>3. Scoped(s) /\ s.cx = r.cx /\ s.on # "admit"
    BY <2>1, <2>2, OnwardScoped, ProgramKinds DEF Onward
  <2>4. /\ at' = [at EXCEPT ![c] = s] /\ UNCHANGED <<members, used, kept, threads, started>>
        /\ UNCHANGED accountVars
    BY <2>1 DEF Goto, accountVars
  <2>5. s.cx.workspace \in WorkspacesIn(s.cx.user, s.cx.tenant)
    BY <2>1, <2>3 DEF RequestsInv
  <2>6. RequestsInv'
    BY <2>3, <2>4, <2>5, SlotReplaced DEF RequestsInv
  <2> QED
    BY <1>0, <2>4, <2>6
<1>2. CASE SettlesDone(c)
  <2>1. PICK rows : Settle(c, rows) /\ Serving(c)
    BY <1>2 DEF SettlesDone
  <2> DEFINE w == r.cx.workspace
             m == Metric[r.on]
             newUsage == used[w][m] + Count(rows, "usage")
             newWork == kept[w][m] + Count(rows, "work")
  <2>2. /\ used' = [used EXCEPT ![w][m] = newUsage] /\ kept' = [kept EXCEPT ![w][m] = newWork]
        /\ threads' = threads \/ threads' = [threads EXCEPT ![r.sender] = @ + 1]
        /\ at' = [at EXCEPT ![c] = Idle] /\ UNCHANGED accountVars /\ UNCHANGED started
    BY <2>1 DEF Settle
  <2>3. w \in Workspaces
    BY <2>1 DEF RequestsInv, Scoped, Context
  <2>4. m \in Metrics
    BY <2>1 DEF Serving, Program, Metric, Metrics
  <2>5. Count(rows, "usage") \in Nat /\ Count(rows, "work") \in Nat
    BY DEF Count
  <2>6. /\ used \in [Workspaces -> [Metrics -> Nat]] /\ kept \in [Workspaces -> [Metrics -> Nat]]
        /\ threads \in [TelegramUsers -> Nat]
    BY DEF RequestsInv
  <2>7. newUsage \in Nat /\ newWork \in Nat
    BY <2>3, <2>4, <2>5, <2>6
  <2> HIDE DEF w, m, newUsage, newWork
  <2>8. used' \in [Workspaces -> [Metrics -> Nat]] /\ kept' \in [Workspaces -> [Metrics -> Nat]]
    BY <2>2, <2>3, <2>4, <2>6, <2>7
  <2>9. threads' \in [TelegramUsers -> Nat]
    BY <2>2, <2>6
  <2>10. RequestsInv'
    BY <2>2, <2>8, <2>9, SlotEmptied DEF accountVars
  <2> QED
    BY <1>0, <2>2, <2>10
<1>3. CASE GiveUp(c)
  <2>1. /\ at' = [at EXCEPT ![c] = Idle] /\ UNCHANGED accountVars
        /\ UNCHANGED <<members, used, kept, threads, started>>
    BY <1>3 DEF GiveUp, accountVars
  <2> QED
    BY <1>0, <2>1, SlotEmptied DEF RequestsInv
<1>4. CASE Link(c)
  <2>1. /\ at' = [at EXCEPT ![c] = Idle] /\ UNCHANGED <<used, kept, threads, started>>
        /\ Linked(r.sender, r.code)
    BY <1>4 DEF Link
  <2>2. UNCHANGED <<user, sessions, tokens, members, plan, events>>
    BY <2>1 DEF Linked
  <2>3. RequestsInv'
    BY <2>1, <2>2, SlotEmptied DEF RequestsInv
  <2> DEFINE k == r.code
             link == [live |-> TRUE, cx |-> codes[k].cx, code |-> k]
  <2>4. codes' = [codes EXCEPT ![k].state = "consumed"] /\ links' = [links EXCEPT ![r.sender] = link]
    BY <2>1 DEF Linked
  <2>5. \A j \in Codes : codes'[j].state \in {None, "issued", "expired", "consumed"}
    BY <2>4 DEF AccountsInv, AccountsTypeOK, LinkInv
  <2>6. link.live \in BOOLEAN
    OBVIOUS
  <2> HIDE DEF link
  <2>7. \A t \in TelegramUsers : links'[t].live \in BOOLEAN
    BY <2>4, <2>6 DEF AccountsInv, AccountsTypeOK, LinkInv
  <2>8. AccountsTypeOK'
    BY <2>2, <2>5, <2>7 DEF AccountsInv, AccountsTypeOK
  <2> QED
    BY <2>2, <2>3, <2>8 DEF AccountsInv, Held
<1>5. CASE Grant(c)
  <2>1. /\ at' = [at EXCEPT ![c] = Idle] /\ r.on = "admit"
        /\ UNCHANGED <<user, tokens, members, plan, events, codes, links, used, kept, threads, started>>
        /\ sessions' = Append(Revoked({r.from}), [user |-> r.user, live |-> TRUE])
    BY <1>5 DEF Grant
  <2>2. RequestsInv'
    BY <2>1, SlotEmptied DEF RequestsInv
  <2>3. Revoked({r.from}) \in Seq([user : Users, live : BOOLEAN])
    BY RevokedTyped DEF AccountsInv
  <2>4. [user |-> r.user, live |-> TRUE] \in [user : Users, live : BOOLEAN]
    BY <2>1 DEF RequestsInv
  <2>5. sessions' \in Seq([user : Users, live : BOOLEAN])
    BY <2>1, <2>3, <2>4
  <2>6. AccountsTypeOK'
    BY <2>1, <2>5 DEF AccountsInv, AccountsTypeOK
  <2> QED
    BY <2>1, <2>2, <2>6 DEF AccountsInv, Held
<1> QED
  BY <1>1, <1>2, <1>3, <1>4, <1>5, WorkKinds

(* Of the limits of some plans the largest is one, and bounds them all. *)
LEMMA LargestOf ==
  ASSUME NEW held, held \subseteq Plans, NEW m \in Metrics,
         \E p \in held : \A q \in held : Cap[q][m] <= Cap[p][m],
         NEW n, n = CHOOSE k \in {Cap[p][m] : p \in held} : \A p \in held : Cap[p][m] =< k
  PROVE  (\E p \in held : n = Cap[p][m]) /\ (\A p \in held : Cap[p][m] <= n) /\ n \in Nat
<1>1. \A p \in held : Cap[p][m] \in Nat
  BY CapAssumption
<1>2. \E k \in {Cap[p][m] : p \in held} : \A p \in held : Cap[p][m] =< k
  OBVIOUS
<1>3. n \in {Cap[p][m] : p \in held} /\ \A p \in held : Cap[p][m] =< n
  BY <1>2
<1> QED
  BY <1>1, <1>3

(* The largest limit an organization has had bounds those of all its plans. *)
LEMMA LargestCapIs ==
  ASSUME AccountsInv, NEW t \in Tenants, NEW m \in Metrics
  PROVE  /\ \E p \in Held(t) : LargestCap(t, m) = Cap[p][m]
         /\ \A p \in Held(t) : Cap[p][m] <= LargestCap(t, m)
         /\ LargestCap(t, m) \in Nat
<1>1. LargestCap(t, m) = CHOOSE n \in {Cap[p][m] : p \in Held(t)} : \A p \in Held(t) : Cap[p][m] =< n
  BY DEF LargestCap, Held
<1>2. Held(t) \subseteq Plans
  BY DEF AccountsInv, AccountsTypeOK, Held, Plans
<1>3. \E p \in Held(t) : \A q \in Held(t) : Cap[q][m] <= Cap[p][m]
  BY DEF AccountsInv
<1> DEFINE held == Held(t)
           largest == LargestCap(t, m)
<1> HIDE DEF held, largest
<1>4. (\E p \in held : largest = Cap[p][m]) /\ (\A p \in held : Cap[p][m] <= largest) /\ largest \in Nat
  BY <1>1, <1>2, <1>3, LargestOf DEF held, largest
<1> QED
  BY <1>4 DEF held, largest

(* Plans an organization buys can only raise the largest limit it has had. *)
LEMMA LargestCapGrows ==
  ASSUME AccountsInv, AccountsInv', NEW t \in Tenants, Held(t) \subseteq Held(t)', NEW m \in Metrics
  PROVE  LargestCap(t, m) <= LargestCap(t, m)' /\ LargestCap(t, m)' \in Nat
<1>1. LargestCap(t, m)' = CHOOSE n \in {Cap[p][m] : p \in Held(t)'} : \A p \in Held(t)' : Cap[p][m] =< n
  BY DEF LargestCap, Held
<1>2. Held(t)' \subseteq Plans
  BY DEF AccountsInv, AccountsTypeOK, Held, Plans
<1>3. \E p \in Held(t)' : \A q \in Held(t)' : Cap[q][m] <= Cap[p][m]
  BY DEF AccountsInv
<1>4. (\A q \in Held(t)' : Cap[q][m] <= LargestCap(t, m)') /\ LargestCap(t, m)' \in Nat
  BY <1>1, <1>2, <1>3, LargestOf
<1>5. PICK p \in Held(t) : LargestCap(t, m) = Cap[p][m]
  BY LargestCapIs
<1> QED
  BY <1>4, <1>5

(* No more requests can be past a limit than there are slots. *)
LEMMA PassedIsBounded ==
  ASSUME NEW S, S \subseteq Slots
  PROVE  /\ IsFiniteSet(S) /\ Cardinality(S) \in Nat
         /\ Cardinality(Slots) \in Nat \ {0} /\ Cardinality(S) <= Cardinality(Slots)
  BY SlotsAssumption, FS_Subset, FS_CardinalityType, FS_EmptySet

(* A step that lets no request past a limit and adds no usage keeps the bound. *)
LEMMA NoneAdded ==
  ASSUME AccountsInv, AccountsInv', RequestsInv, RequestsInv', OverdraftInv, UNCHANGED used,
         NEW u \in Users, NEW m \in Metrics, Held(HomeOf[u].tenant) \subseteq Held(HomeOf[u].tenant)',
         Passed(HomeOf[u].workspace, m)' \subseteq Passed(HomeOf[u].workspace, m)
  PROVE  used'[HomeOf[u].workspace][m] + Cardinality(Passed(HomeOf[u].workspace, m)')
           <= LargestCap(HomeOf[u].tenant, m)' + Cardinality(Slots) - 1
<1> DEFINE w == HomeOf[u].workspace
           t == HomeOf[u].tenant
           before == Cardinality(Passed(w, m))
           after == Cardinality(Passed(w, m)')
           largest == LargestCap(t, m)
           largestAfter == LargestCap(t, m)'
<1>1. w \in Workspaces /\ t \in Tenants
  BY DEF Workspaces, Tenants
<1>2. after \in Nat /\ before \in Nat /\ after <= before /\ Cardinality(Slots) \in Nat
  <2>1. Passed(w, m) \subseteq Slots
    BY DEF Passed
  <2>2. IsFiniteSet(Passed(w, m)) /\ before \in Nat /\ Cardinality(Slots) \in Nat
    BY <2>1, PassedIsBounded
  <2> QED
    BY <2>2, FS_Subset, FS_CardinalityType
<1>3. largest \in Nat /\ largestAfter \in Nat /\ largest <= largestAfter
  BY <1>1, LargestCapIs, LargestCapGrows
<1>4. used[w][m] \in Nat /\ used'[w][m] = used[w][m]
  BY <1>1 DEF RequestsInv
<1>5. used[w][m] + before <= largest + Cardinality(Slots) - 1
  BY DEF OverdraftInv
<1> HIDE DEF before, after, largest, largestAfter, w, t
<1>6. used'[w][m] + after <= largestAfter + Cardinality(Slots) - 1
  BY <1>2, <1>3, <1>4, <1>5
<1> QED
  BY <1>6 DEF w, t, after, largestAfter

(* A slot gets a request that has not passed its limit, or had before: none more has. *)
LEMMA PassedShrinks ==
  ASSUME MeterInv, NEW c \in Slots, NEW r, at' = [at EXCEPT ![c] = r],
         r.on \in DOMAIN Program =>
           \/ ~PastStep(r, "limit")
           \/ Serving(c) /\ r.on = at[c].on /\ r.cx = at[c].cx /\ PastStep(at[c], "limit"),
         NEW w, NEW m
  PROVE  Passed(w, m)' \subseteq Passed(w, m)
<1>1. at'[c] = r /\ \A d \in Slots \ {c} : at'[d] = at[d]
  BY DEF MeterInv
<1> QED
  BY <1>1 DEF Passed, Serving, PastStep

(* A request that begins is past nothing. *)
LEMMA ArrivedFresh ==
  ASSUME Arrival
  PROVE  \E c \in Slots : \E r : /\ Start(c, r) /\ UNCHANGED accountVars
                                 /\ r.on \in DOMAIN Program => ~PastStep(r, "limit")
<1>1. ASSUME NEW k, NEW cx, NEW sender PROVE ~PastStep(Begin(k, cx, sender), "limit")
  BY DEF PastStep, Begin
<1>2. ASSUME NEW tg, NEW k PROVE [on |-> "redeem", sender |-> tg, code |-> k].on \notin DOMAIN Program
  BY ProgramKinds
<1>3. ASSUME NEW u, NEW s PROVE [on |-> "admit", user |-> u, from |-> s].on \notin DOMAIN Program
  BY ProgramKinds
<1> QED
  BY <1>1, <1>2, <1>3 DEF Arrival, Arrive, ArriveTelegram, Redeem, Admit

(* Account handlers and arrivals add neither usage nor a request past its limit. *)
LEMMA OutsideKeepsOverdraft ==
  ASSUME MeterInv, LinkInv, AccountsInv, RequestsInv, OverdraftInv, AccountsInv', RequestsInv',
         (AccountStep /\ UNCHANGED requestVars) \/ Arrival
  PROVE  OverdraftInv'
<1>1. ASSUME NEW u \in Users, NEW m \in Metrics
      PROVE  /\ Passed(HomeOf[u].workspace, m)' \subseteq Passed(HomeOf[u].workspace, m)
             /\ UNCHANGED used
             /\ Held(HomeOf[u].tenant) \subseteq Held(HomeOf[u].tenant)'
  <2>0. HomeOf[u].tenant \in Tenants
    BY DEF Tenants
  <2>1. CASE AccountStep /\ UNCHANGED requestVars
    BY <2>0, <2>1, AccountsStep DEF requestVars, Passed, Serving, PastStep
  <2>2. CASE Arrival
    <3>0. PICK c \in Slots : \E r : /\ Start(c, r) /\ UNCHANGED accountVars
                                    /\ r.on \in DOMAIN Program => ~PastStep(r, "limit")
      BY <2>2, ArrivedFresh
    <3>1. PICK r : /\ Start(c, r) /\ UNCHANGED accountVars
                   /\ r.on \in DOMAIN Program => ~PastStep(r, "limit")
      BY <3>0
    <3>2. at' = [at EXCEPT ![c] = r] /\ UNCHANGED <<used, events>>
      BY <3>1 DEF Start, accountVars
    <3> QED
      BY <3>1, <3>2, PassedShrinks DEF Held
  <2> QED
    BY <2>1, <2>2
<1> QED
  BY <1>1, NoneAdded DEF OverdraftInv

(* The requests of a workspace belong to the organization it belongs to. *)
LEMMA ScopeIsHome ==
  ASSUME AccountsInv, RequestsInv, NEW c \in Slots, Serving(c), NEW u \in Users,
         at[c].cx.workspace = HomeOf[u].workspace
  PROVE  at[c].cx.tenant = HomeOf[u].tenant /\ plan[at[c].cx.tenant] \in Held(at[c].cx.tenant)
<1> DEFINE cx == at[c].cx
<1>1. cx.workspace \in WorkspacesIn(cx.user, cx.tenant)
  BY DEF RequestsInv
<1>2. PICK m \in members : m.tenant = cx.tenant /\ m.workspace = cx.workspace
  BY <1>1 DEF WorkspacesIn, Memberships
<1>3. plan[cx.tenant] # None /\ cx.tenant \in Tenants
  BY <1>2 DEF AccountsInv, AccountsTypeOK
<1>4. \E v \in Users : cx.tenant = HomeOf[v].tenant /\ cx.workspace = HomeOf[v].workspace
  BY <1>2 DEF AccountsInv
<1>5. cx.tenant = HomeOf[u].tenant
  BY <1>4, HomesAssumption
<1>6. plan[cx.tenant] \in Held(cx.tenant)
  BY <1>3 DEF AccountsInv
<1> QED
  BY <1>5, <1>6

(* Going on adds no usage; only the reading of the limit lets a request past it, and leaves room *)
(* for one row of each slot.                                                                      *)
LEMMA OnwardKeepsOverdraft ==
  ASSUME MeterInv, AccountsInv, RequestsInv, OverdraftInv, AccountsInv', RequestsInv',
         NEW c \in Slots, GoesOnward(c)
  PROVE  OverdraftInv'
<1> DEFINE r == at[c]
<1>1. PICK s : /\ Goto(c, s) /\ Serving(c) /\ Onward(r, s)
               /\ StepOf(r) = "limit" => Remaining(r.cx, Metric[r.on]) >= 1
  BY DEF GoesOnward
<1>2. at' = [at EXCEPT ![c] = s] /\ UNCHANGED <<used, events, plan>>
  BY <1>1 DEF Goto, accountVars
<1>3. r.on \in DOMAIN Program /\ Good(r)
  BY <1>1 DEF Serving, MeterInv
<1>4. r.pc \in 1..Len(Program[r.on]) /\ StepOf(r) = Program[r.on][r.pc]
  BY <1>1, <1>3, ProgramStarts DEF Good, StepOf, Onward
<1>5. s.pc = r.pc + 1 => (PastStep(s, "limit") <=> PastStep(r, "limit") \/ StepOf(r) = "limit")
  BY <1>1, <1>4 DEF PastStep, Onward
<1>6. s.pc = r.pc => (PastStep(s, "limit") <=> PastStep(r, "limit"))
  BY <1>1 DEF PastStep, Onward
<1>7. StepOf(r) = "model" => PastStep(r, "limit")
  <2>1. r.pc \in 1..Len(Program[r.on]) + 1 /\ r.pc <= Len(Program[r.on])
    BY <1>3, <1>4, ProgramStarts
  <2>2. Program[r.on][r.pc] = "model" => \E j \in 1..r.pc - 1 : Program[r.on][j] = "limit"
    BY <1>3, <2>1, ProgramOrder
  <2> QED
    BY <1>4, <2>2 DEF PastStep
<1>8. s.on = r.on /\ s.cx = r.cx
  BY <1>1 DEF Onward
<1>9. \A t : Held(t)' = Held(t)
  BY <1>2 DEF Held
<1> SUFFICES ASSUME NEW u \in Users, NEW m \in Metrics
             PROVE  used'[HomeOf[u].workspace][m] + Cardinality(Passed(HomeOf[u].workspace, m)')
                      <= LargestCap(HomeOf[u].tenant, m)' + Cardinality(Slots) - 1
  BY DEF OverdraftInv
<1> DEFINE w == HomeOf[u].workspace
           t == HomeOf[u].tenant
<1>10. CASE StepOf(r) = "limit" /\ r.cx.workspace = w /\ Metric[r.on] = m
  <2>1. r.cx.tenant = t /\ plan[t] \in Held(t)
    BY <1>1, <1>10, ScopeIsHome
  <2>2. w \in Workspaces /\ t \in Tenants
    BY DEF Workspaces, Tenants
  <2>3. Cap[plan[t]][m] - used[w][m] >= 1
    BY <1>1, <1>10, <2>1 DEF Remaining
  <2>4. Cap[plan[t]][m] \in Nat /\ used[w][m] \in Nat /\ used'[w][m] = used[w][m]
    <3>1. plan[t] \in Plans
      BY <2>1 DEF AccountsInv, AccountsTypeOK, Held, Plans
    <3> QED
      BY <1>2, <2>2, <3>1, CapAssumption DEF RequestsInv
  <2> DEFINE largest == LargestCap(t, m)'
             after == Cardinality(Passed(w, m)')
  <2>5. /\ Cap[plan[t]][m] <= LargestCap(t, m) /\ LargestCap(t, m) \in Nat
        /\ LargestCap(t, m) <= largest /\ largest \in Nat
    BY <1>9, <2>1, <2>2, LargestCapIs, LargestCapGrows
  <2>6. Passed(w, m)' \subseteq Slots
    BY DEF Passed
  <2>7. after \in Nat /\ Cardinality(Slots) \in Nat /\ after <= Cardinality(Slots)
    BY <2>6, PassedIsBounded
  <2> HIDE DEF largest, after, w, t
  <2>8. used'[w][m] + after <= largest + Cardinality(Slots) - 1
    BY <2>3, <2>4, <2>5, <2>7
  <2> QED
    BY <2>8 DEF largest, after, w, t
<1>11. CASE ~(StepOf(r) = "limit" /\ r.cx.workspace = w /\ Metric[r.on] = m)
  <2>1. Passed(w, m)' \subseteq Passed(w, m)
    <3>1. CASE StepOf(r) # "limit"
      <4>1. PastStep(s, "limit") => PastStep(r, "limit")
        BY <1>1, <1>5, <1>6, <1>7, <3>1 DEF Onward
      <4> QED
        BY <1>1, <1>2, <1>8, <4>1, PassedShrinks
    <3>2. CASE ~(r.cx.workspace = w /\ Metric[r.on] = m)
      <4>1. at'[c] = s /\ \A d \in Slots \ {c} : at'[d] = at[d]
        BY <1>2 DEF MeterInv
      <4> QED
        BY <1>8, <3>2, <4>1 DEF Passed, Serving, PastStep
    <3> QED
      BY <1>11, <3>1, <3>2
  <2> QED
    BY <1>2, <1>9, <2>1, NoneAdded
<1> QED
  BY <1>10, <1>11

(* A commit turns a request that was past its limit into at most one usage row. *)
LEMMA SettlingKeepsOverdraft ==
  ASSUME MeterInv, AccountsInv, RequestsInv, OverdraftInv, AccountsInv', RequestsInv',
         NEW c \in Slots, SettlesDone(c)
  PROVE  OverdraftInv'
<1> DEFINE r == at[c]
<1>1. PICK rows : Settle(c, rows) /\ Serving(c) /\ rows \subseteq r.did
  BY DEF SettlesDone
<1> DEFINE wr == r.cx.workspace
           mr == Metric[r.on]
           more == used[wr][mr] + Count(rows, "usage")
<1>2. /\ used' = [used EXCEPT ![wr][mr] = more] /\ at' = [at EXCEPT ![c] = Idle]
      /\ UNCHANGED events
  BY <1>1 DEF Settle, accountVars
<1>3. wr \in Workspaces /\ mr \in Metrics /\ r.on \in DOMAIN Program /\ Good(r)
  <2>1. wr \in Workspaces
    BY <1>1 DEF RequestsInv, Scoped, Context
  <2>2. r.on \in DOMAIN Program /\ Good(r)
    BY <1>1 DEF Serving, MeterInv
  <2> QED
    BY <2>1, <2>2 DEF Program, Metric, Metrics
<1>4. Idle.on \notin DOMAIN Program
  BY ProgramKinds DEF Idle
<1>5. \A w, m : Passed(w, m)' = Passed(w, m) \ {c}
  <2>1. at'[c] = Idle /\ \A d \in Slots \ {c} : at'[d] = at[d]
    BY <1>2 DEF MeterInv
  <2> QED
    BY <1>4, <2>1 DEF Passed, Serving, PastStep
<1>6. \A t : Held(t)' = Held(t)
  BY <1>2 DEF Held
<1>7. "usage" \in rows => c \in Passed(wr, mr)
  <2>1. "usage" \in rows => PastStep(r, "meter")
    BY <1>1 DEF RequestsInv, Scoped
  <2>2. r.pc \in 1..Len(Program[r.on]) + 1
    BY <1>3 DEF Good
  <2>3. PastStep(r, "meter") => PastStep(r, "limit")
    BY <1>3, <2>2, ProgramOrder DEF PastStep
  <2> QED
    BY <1>1, <2>1, <2>3 DEF Passed
<1> SUFFICES ASSUME NEW u \in Users, NEW m \in Metrics
             PROVE  used'[HomeOf[u].workspace][m] + Cardinality(Passed(HomeOf[u].workspace, m)')
                      <= LargestCap(HomeOf[u].tenant, m)' + Cardinality(Slots) - 1
  BY DEF OverdraftInv
<1> DEFINE w == HomeOf[u].workspace
           t == HomeOf[u].tenant
           before == Cardinality(Passed(w, m))
           after == Cardinality(Passed(w, m)')
           largest == LargestCap(t, m)
           largestAfter == LargestCap(t, m)'
<1>8. w \in Workspaces /\ t \in Tenants
  BY DEF Workspaces, Tenants
<1>9. /\ largest \in Nat /\ largest <= largestAfter
      /\ largestAfter \in Nat
  BY <1>6, <1>8, LargestCapIs, LargestCapGrows
<1>10. IsFiniteSet(Passed(w, m)) /\ before \in Nat /\ Cardinality(Slots) \in Nat
  <2>1. Passed(w, m) \subseteq Slots
    BY DEF Passed
  <2> QED
    BY <2>1, PassedIsBounded
<1>11. used[w][m] + before <= largest + Cardinality(Slots) - 1
  BY DEF OverdraftInv
<1>12. used \in [Workspaces -> [Metrics -> Nat]]
  BY DEF RequestsInv
<1>13. CASE "usage" \in rows /\ w = wr /\ m = mr
  <2>1. used'[w][m] = used[w][m] + 1 /\ used[w][m] \in Nat
    <3>1. Count(rows, "usage") = 1
      BY <1>13 DEF Count
    <3> QED
      BY <1>2, <1>3, <1>12, <1>13, <3>1
  <2>2. after = before - 1
    <3>1. c \in Passed(w, m) /\ Passed(w, m)' = Passed(w, m) \ {c}
      BY <1>5, <1>7, <1>13
    <3>2. IsFiniteSet(Passed(w, m))
      BY <1>10
    <3>3. Cardinality(Passed(w, m) \ {c}) = Cardinality(Passed(w, m)) - 1
      BY <3>1, <3>2, FS_RemoveElement
    <3> QED
      BY <3>1, <3>3
  <2> HIDE DEF before, after, largest, largestAfter, w, t
  <2>3. used'[w][m] + after <= largestAfter + Cardinality(Slots) - 1
    BY <1>9, <1>10, <1>11, <2>1, <2>2
  <2> QED
    BY <2>3 DEF after, largestAfter, w, t
<1>14. CASE ~("usage" \in rows /\ w = wr /\ m = mr)
  <2>1. used'[w][m] = used[w][m] /\ used[w][m] \in Nat
    BY <1>2, <1>3, <1>8, <1>12, <1>14 DEF Count
  <2>2. after \in Nat /\ after <= before
    BY <1>5, <1>10, FS_Subset, FS_CardinalityType
  <2> HIDE DEF before, after, largest, largestAfter, w, t
  <2>3. used'[w][m] + after <= largestAfter + Cardinality(Slots) - 1
    BY <1>9, <1>10, <1>11, <2>1, <2>2
  <2> QED
    BY <2>3 DEF after, largestAfter, w, t
<1> QED
  BY <1>13, <1>14

(* A slot emptied without a commit adds nothing. *)
LEMMA EmptyingKeepsOverdraft ==
  ASSUME MeterInv, AccountsInv, RequestsInv, OverdraftInv, AccountsInv', RequestsInv',
         NEW c \in Slots, at' = [at EXCEPT ![c] = Idle], UNCHANGED <<used, events>>
  PROVE  OverdraftInv'
<1>1. Idle.on \notin DOMAIN Program
  BY ProgramKinds DEF Idle
<1>2. \A w, m : Passed(w, m)' \subseteq Passed(w, m)
  BY <1>1, PassedShrinks
<1>3. \A t : Held(t)' = Held(t)
  BY DEF Held
<1> QED
  BY <1>2, <1>3, NoneAdded DEF OverdraftInv

(* A tool whose tables belong to nobody, are guarded by their policy, or are compared with the *)
(* workspace of the request; the tools of personal records compare the user too.               *)
Contained(name, tool) ==
  /\ \A t \in tool.reads : t \notin AtHead.owned \cup Guarded \/ t \in Guarded \/ "workspace" \in tool.by
  /\ name \in Personal => "user" \in tool.by

(* Every tool of every family is contained: the tools of the market. *)
LEMMA MarketToolsContained == \A name \in DOMAIN MarketTools : Contained(name, MarketTools[name])
  BY PoliciesAssumption
  DEF MarketTools, Contained, Personal, GetCandles, GetIndicators, GetStructure, GetChartImage,
      GetDataCoverage, Quiet, Platform, Bars

(* The tools of the engines. *)
LEMMA EngineToolsContained == \A name \in DOMAIN EngineTools : Contained(name, EngineTools[name])
  BY PoliciesAssumption
  DEF EngineTools, Contained, Personal, GetGeometry, GetZones, GetLiquidity, GetVolatilityRegime,
      GetMtfBias, GetPriceContext, GetTimeframeRead, GetSessionStatus, GetNews, LoadLadder,
      Platform, Bars

(* The tools of the records. *)
LEMMA RecordToolsContained == \A name \in DOMAIN RecordTools : Contained(name, RecordTools[name])
  BY DEF RecordTools, Contained, Personal, GetWorkspaceContext, ListRecommendations,
      GetRecommendation, GetRecommendationRevisions, GetReevaluationHistory, ListTrades,
      ListJournalEntries, ListAlerts, ListWatchlists, ListChartAnnotations, ListTheses,
      Workspace, Home, Own

(* The tools of what was learned. *)
LEMMA LearningToolsContained == \A name \in DOMAIN LearningTools : Contained(name, LearningTools[name])
  BY PoliciesAssumption
  DEF LearningTools, Contained, Personal, GetStrategyStats, GetStrategySupport, GetCalibration,
      GetTradingDna, ListLessons, SearchMemories, GetPerformanceSummary, FindSimilarCases,
      GetCaseOutcomeStats, FingerprintProbe, Quiet, Workspace, Platform, Home, Bars

(* All the tools. *)
LEMMA ToolsContained == \A name \in DOMAIN TOOLS : Contained(name, TOOLS[name])
<1> SUFFICES ASSUME NEW name \in DOMAIN TOOLS PROVE Contained(name, TOOLS[name])
  OBVIOUS
<1>1. DOMAIN Families = 1..4
  BY DEF Families
<1>2. \E i \in 1..4 : name \in DOMAIN Families[i]
  BY <1>1 DEF TOOLS
<1>3. Family(name) \in 1..4 /\ name \in DOMAIN Families[Family(name)]
  BY <1>1, <1>2 DEF Family
<1>4. TOOLS[name] = Families[Family(name)][name]
  BY DEF TOOLS
<1>5. /\ Families[1] = MarketTools /\ Families[2] = EngineTools
      /\ Families[3] = RecordTools /\ Families[4] = LearningTools
  BY DEF Families
<1>6. \A i \in 1..4 : \A n \in DOMAIN Families[i] : Contained(n, Families[i][n])
  BY <1>5, MarketToolsContained, EngineToolsContained, RecordToolsContained, LearningToolsContained
<1> QED
  BY <1>3, <1>4, <1>6

(* Whatever it is asked, a contained tool shows rows of the workspace of the request, and a *)
(* tool of personal records only the user's.                                                *)
LEMMA DispatchedRows ==
  ASSUME NEW name \in DOMAIN TOOLS, NEW cx, NEW tx, NEW owners, NEW failure,
         NEW row \in Dispatch(name, cx, tx, cx.workspace, owners, failure).rows
  PROVE  row.workspace = cx.workspace /\ (name \in Personal => row.user = cx.user)
<1> DEFINE tool == TOOLS[name]
<1>1. \E t \in tool.reads : row \in Seen(t, tool.by, owners, cx.workspace, cx)
  BY DEF Dispatch
<1> QED
  BY <1>1, ToolsContained DEF Contained, Seen

(* Accounts, requests and the totals, with what keeps the overdraft in bounds: inductive. *)
MonthInv == MeterInv /\ LinkInv /\ AccountsInv /\ RequestsInv /\ OverdraftInv

(* A new service has users only of its operators, on the free plan, and no requests. *)
LEMMA MonthBegins == Init => MonthInv
<1> SUFFICES ASSUME Init PROVE AccountsInv /\ RequestsInv /\ OverdraftInv
  BY MeterInvHolds, LinkInvHolds DEF MonthInv
<1>1. AccountsInv
  <2>1. \A u \in Operators : u \in Users /\ HomeOf[u].tenant \in Tenants /\ HomeOf[u].workspace \in Workspaces
    BY OperatorsAssumption DEF Tenants, Workspaces
  <2>2. \A m \in members : \E u \in Operators :
          m.user = u /\ m.tenant = HomeOf[u].tenant /\ m.workspace = HomeOf[u].workspace
    BY DEF Init, AccountsInit, Member
  <2>3. plan = [t \in Tenants |-> IF \E u \in Operators : HomeOf[u].tenant = t THEN "FREE" ELSE None]
    BY DEF Init, AccountsInit
  <2>4. plan \in [Tenants -> Plans \cup {None}]
    BY <2>3 DEF Plans
  <2>5. \A t \in Tenants : Held(t) = {"FREE"} /\ (plan[t] # None => plan[t] = "FREE")
    BY <2>3 DEF Init, AccountsInit, Held
  <2>6. /\ user \in [Users -> {None, "PENDING_VERIFICATION", "ACTIVE"}]
        /\ sessions \in Seq([user : Users, live : BOOLEAN])
        /\ tokens = {} /\ events = {}
        /\ \A k \in Codes : codes[k].state = None
        /\ \A tg \in TelegramUsers : links[tg].live = FALSE
    BY DEF Init, AccountsInit, Unissued, Unlinked
  <2>7. AccountsTypeOK
    BY <2>1, <2>2, <2>4, <2>6 DEF AccountsTypeOK
  <2>8. \A t \in Tenants, m \in Metrics :
          \E p \in Held(t) : \A q \in Held(t) : Cap[q][m] <= Cap[p][m]
    <3>1. \A m \in Metrics : Cap["FREE"][m] <= Cap["FREE"][m]
      BY CapAssumption DEF Plans
    <3> QED
      BY <2>5, <3>1
  <2>9. \A m \in members : plan[m.tenant] # None
    <3>1. \A u \in Operators : plan[HomeOf[u].tenant] = "FREE"
      BY <2>1, <2>3
    <3> QED
      BY <2>2, <3>1 DEF None
  <2> QED
    BY <2>1, <2>2, <2>5, <2>7, <2>8, <2>9 DEF AccountsInv
<1>2. /\ \A c \in Slots : at[c] = Idle
      /\ \A w \in Workspaces, m \in Metrics : used[w][m] = 0
      /\ used \in [Workspaces -> [Metrics -> Nat]] /\ kept \in [Workspaces -> [Metrics -> Nat]]
      /\ threads \in [TelegramUsers -> Nat] /\ started = 0
  BY DEF Init
<1>3. Idle.on \notin DOMAIN Program /\ Idle.on # "admit"
  BY ProgramKinds DEF Idle
<1>4. RequestsInv
  BY <1>2, <1>3, BoundsAssumption DEF RequestsInv, Serving
<1>5. ASSUME NEW u \in Users, NEW m \in Metrics
      PROVE  used[HomeOf[u].workspace][m] + Cardinality(Passed(HomeOf[u].workspace, m))
               <= LargestCap(HomeOf[u].tenant, m) + Cardinality(Slots) - 1
  <2>1. Passed(HomeOf[u].workspace, m) = {}
    BY <1>2, <1>3 DEF Passed, Serving
  <2>2. used[HomeOf[u].workspace][m] = 0
    BY <1>2 DEF Workspaces
  <2>3. LargestCap(HomeOf[u].tenant, m) \in Nat
    BY <1>1, LargestCapIs DEF Tenants
  <2>4. Cardinality({}) = 0 /\ Cardinality(Slots) \in Nat \ {0}
    BY PassedIsBounded, FS_EmptySet
  <2> DEFINE largest == LargestCap(HomeOf[u].tenant, m)
  <2> HIDE DEF largest
  <2>5. 0 + 0 <= largest + Cardinality(Slots) - 1
    BY <2>3, <2>4 DEF largest
  <2> QED
    BY <2>1, <2>2, <2>4, <2>5 DEF largest
<1> QED
  BY <1>1, <1>4, <1>5 DEF OverdraftInv

(* No step of an account handler, an arrival or a request leaves the invariant. *)
LEMMA MonthGoesOn == MonthInv /\ [Next]_vars => MonthInv'
<1> SUFFICES ASSUME MeterInv, LinkInv, AccountsInv, RequestsInv, OverdraftInv, [Next]_vars
             PROVE  AccountsInv' /\ RequestsInv' /\ OverdraftInv'
  BY MeterInvHolds, LinkInvHolds DEF MonthInv
<1>1. CASE AccountStep /\ UNCHANGED requestVars
  <2>1. AccountsInv' /\ members \subseteq members'
    BY <1>1, AccountsStep
  <2>2. \A u, t : WorkspacesIn(u, t) \subseteq WorkspacesIn(u, t)'
    BY <2>1 DEF WorkspacesIn, Memberships
  <2>3. RequestsInv'
    BY <1>1, <2>2 DEF requestVars, RequestsInv, Serving, Scoped, PastStep
  <2> QED
    BY <1>1, <2>1, <2>3, OutsideKeepsOverdraft
<1>2. CASE Arrival
  <2>1. UNCHANGED accountVars
    BY <1>2, ArrivedFresh
  <2>2. AccountsInv'
    BY <2>1 DEF accountVars, AccountsInv, AccountsTypeOK, Held
  <2>3. RequestsInv'
    BY <1>2, ArrivedScoped
  <2> QED
    BY <1>2, <2>2, <2>3, OutsideKeepsOverdraft
<1>3. CASE \E c \in Slots : Work(c)
  <2>1. PICK c \in Slots : Work(c)
    BY <1>3
  <2>2. AccountsInv' /\ RequestsInv' /\ UNCHANGED events
    BY <2>1, WorkedScoped
  <2>3. GiveUp(c) \/ Link(c) \/ Grant(c) => at' = [at EXCEPT ![c] = Idle] /\ UNCHANGED used
    BY DEF GiveUp, Link, Grant
  <2> QED
    BY <2>1, <2>2, <2>3, WorkKinds, OnwardKeepsOverdraft, SettlingKeepsOverdraft, EmptyingKeepsOverdraft
<1>4. CASE UNCHANGED vars
  <2>1. AccountsInv'
    BY <1>4 DEF vars, accountVars, AccountsInv, AccountsTypeOK, Held
  <2>2. RequestsInv'
    BY <1>4 DEF vars, accountVars, requestVars, RequestsInv, Serving, Scoped, PastStep, WorkspacesIn, Memberships
  <2>3. \A w, m : Passed(w, m)' \subseteq Passed(w, m)
    BY <1>4 DEF vars, requestVars, Passed, Serving, PastStep
  <2>4. \A t : Held(t)' = Held(t)
    BY <1>4 DEF vars, accountVars, Held
  <2>5. OverdraftInv'
    BY <1>4, <2>1, <2>2, <2>3, <2>4, NoneAdded DEF vars, requestVars, OverdraftInv
  <2> QED
    BY <2>1, <2>2, <2>5
<1> QED
  BY <1>1, <1>2, <1>3, <1>4 DEF Next

(* Users, sessions, memberships and requests keep their types: in particular every request that *)
(* serves was resolved to a user, an organization and a workspace that exist, and has tried no  *)
(* more providers than the chain holds.                                                         *)
THEOREM RequestsAreTyped == Spec => []TypeOK
<1>1. MonthInv => TypeOK
  BY DEF MonthInv, MeterInv, AccountsInv, RequestsInv, TypeOK, Good, Scoped, Serving, Steps
<1> QED
  BY <1>1, MonthBegins, MonthGoesOn, PTL DEF Spec

(* The limit is read before the work and the usage written after it, so requests that overlap *)
(* pass it together: the month exceeds the largest limit the organization has had by at most  *)
(* one less than the requests that can run at once, for all limits, plans and failures.       *)
THEOREM OverdraftStaysBounded == Spec => []OverdraftIsBounded
<1>1. MonthInv => OverdraftIsBounded
  <2> SUFFICES ASSUME MonthInv, NEW u \in Users, NEW m \in Metrics
               PROVE  used[HomeOf[u].workspace][m] <= LargestCap(HomeOf[u].tenant, m) + Cardinality(Slots) - 1
    BY DEF OverdraftIsBounded
  <2> DEFINE passed == Cardinality(Passed(HomeOf[u].workspace, m))
             largest == LargestCap(HomeOf[u].tenant, m)
             usage == used[HomeOf[u].workspace][m]
  <2>1. usage + passed <= largest + Cardinality(Slots) - 1
    BY DEF MonthInv, OverdraftInv
  <2>2. Passed(HomeOf[u].workspace, m) \subseteq Slots
    BY DEF Passed
  <2>3. passed \in Nat /\ Cardinality(Slots) \in Nat
    BY <2>2, PassedIsBounded
  <2>4. largest \in Nat /\ usage \in Nat
    BY LargestCapIs DEF MonthInv, RequestsInv, Tenants, Workspaces
  <2> HIDE DEF passed, largest, usage
  <2>5. usage <= largest + Cardinality(Slots) - 1
    BY <2>1, <2>3, <2>4
  <2> QED
    BY <2>5 DEF largest, usage
<1> QED
  BY <1>1, MonthBegins, MonthGoesOn, PTL DEF Spec

(* Whatever tool a request calls next, over either entrance, whatever its client asked for and *)
(* whatever has failed before, it is shown rows of a workspace its user belongs to, and of     *)
(* journal entries and alerts only the user's own.                                             *)
THEOREM ReadsAreScoped == Spec => []ReadsStayInScope
<1>1. MonthInv => ReadsStayInScope
  <2> SUFFICES ASSUME MonthInv, NEW c \in Slots, Serving(c)
               PROVE  /\ at[c].cx.workspace \in WorkspacesIn(at[c].cx.user, at[c].cx.tenant)
                      /\ \A name \in DOMAIN TOOLS :
                           \A row \in Dispatch(name, at[c].cx, at[c].tx, at[c].bound, Rows, "none").rows :
                             /\ row.workspace = at[c].cx.workspace
                             /\ name \in Personal => row.user = at[c].cx.user
    BY DEF ReadsStayInScope
  <2>1. /\ at[c].bound = at[c].cx.workspace
        /\ at[c].cx.workspace \in WorkspacesIn(at[c].cx.user, at[c].cx.tenant)
    BY DEF MonthInv, RequestsInv, Scoped
  <2> QED
    BY <2>1, DispatchedRows
<1> QED
  BY <1>1, MonthBegins, MonthGoesOn, PTL DEF Spec
=============================================================================
