--------------------------- MODULE MeteredRequests ---------------------------
(***************************************************************************)
(* The requests a plan's limits are about - a chat turn, plain, streamed   *)
(* or from Telegram, an MCP call, a full analysis - beside the account     *)
(* handlers of Accounts.  A request is one database transaction run        *)
(* through a fixed list of steps, and several run at once: the limit is    *)
(* read in an early step and the usage it limits is written in the last.   *)
(* A statement that fails aborts the transaction, and where the error is   *)
(* swallowed the request goes on with a transaction that refuses every     *)
(* statement and whose commit keeps nothing.                               *)
(***************************************************************************)
EXTENDS Accounts, Tools

CONSTANTS
  Slots,        \* requests that can run at once
  Callable,     \* the tools that get called, of TOOLS
  Surfaces,     \* the entrances that are in use, of those of Program
  Providers,    \* the length of the failover chain
  Cap,          \* per plan and metric, the monthly limit
  MaxRequests   \* bound on the requests that ever start

VARIABLES
  at,       \* per slot, the request running in it
  used,     \* per workspace and metric, the usage rows of the month
  kept,     \* per workspace and metric, the answers, audited calls and analyses committed
  threads,  \* per Telegram account, the conversations made for it
  started   \* requests so far
requestVars == <<at, used, kept, threads, started>>
vars == <<accountVars, requestVars>>

Metrics == {"analysis.run", "chat.send", "mcp.call"}
PlainTurn    == <<"limit", "recall", "model", "write", "meter">>
StreamedTurn == <<"limit", "recall", "ask", "model", "write", "meter">>
TelegramTurn == <<"thread", "limit", "recall", "model", "write", "meter", "stamp">>
McpCall      == <<"open", "limit", "tool", "write", "meter">>
AnalysisRun  == <<"limit", "recall", "browse", "trace", "write", "meter">>
Program == [plain |-> PlainTurn, stream |-> StreamedTurn, telegram |-> TelegramTurn,
            mcp |-> McpCall, analysis |-> AnalysisRun]
Metric == [plain |-> "chat.send", stream |-> "chat.send", telegram |-> "chat.send",
           mcp |-> "mcp.call", analysis |-> "analysis.run"]

ASSUME SurfacesAssumption == Surfaces \subseteq DOMAIN Program
ASSUME SlotsAssumption == IsFiniteSet(Slots) /\ Slots # {}
ASSUME BoundsAssumption == Providers \in Nat \ {0} /\ MaxRequests \in Nat
\* A plan that names no limit has one that no month reaches.
ASSUME CapAssumption == \A p \in Plans : \A m \in Metrics : Cap[p][m] \in Nat

Idle == [on |-> "-"]
Serving(c) == at[c].on \in DOMAIN Program
Steps(c) == Program[at[c].on]
Doing(c) == IF Serving(c) /\ at[c].pc =< Len(Steps(c)) THEN Steps(c)[at[c].pc] ELSE "-"

\* get_db_session: one transaction for the request, bound to the workspace of its context.
Begin(kind, cx, sender) ==
  [on |-> kind, pc |-> 1, cx |-> cx, bound |-> cx.workspace, tx |-> "clean", did |-> {},
   tried |-> 0, sender |-> sender]

TypeOK ==
  /\ AccountsTypeOK
  /\ \A c \in Slots : Serving(c) => /\ at[c].pc \in 1..Len(Steps(c)) + 1
                                    /\ at[c].cx \in Context /\ at[c].tx \in {"clean", "aborted"}
                                    /\ at[c].tried \in 0..Providers - 1
  /\ used \in [Workspaces -> [Metrics -> Nat]]
  /\ kept \in [Workspaces -> [Metrics -> Nat]]
  /\ threads \in [TelegramUsers -> Nat]
  /\ started \in 0..MaxRequests

Init ==
  /\ AccountsInit
  /\ at = [c \in Slots |-> Idle]
  /\ used = [w \in Workspaces |-> [m \in Metrics |-> 0]]
  /\ kept = [w \in Workspaces |-> [m \in Metrics |-> 0]]
  /\ threads = [tg \in TelegramUsers |-> 0]
  /\ started = 0
-----------------------------------------------------------------------------
Start(c, request) ==
  /\ at[c] = Idle /\ started < MaxRequests
  /\ at' = [at EXCEPT ![c] = request]
  /\ started' = started + 1
  /\ UNCHANGED <<used, kept, threads>>

\* api/deps: the user of a live session, in the scope its headers may ask for.
Arrive(c, kind, s, tenantHint, workspaceHint) ==
  /\ Authenticated(s)
  /\ \E cx \in Resolve(sessions[s].user, tenantHint, workspaceHint) : Start(c, Begin(kind, cx, None))
  /\ UNCHANGED accountVars

\* telegram/webhook.handle_update, for a sender already linked.
ArriveTelegram(c, tg) ==
  /\ \E cx \in LinkedContexts(tg) : Start(c, Begin("telegram", cx, tg))
  /\ UNCHANGED accountVars

\* The same, for an unlinked sender with a code.  The row is locked until the transaction
\* ends, and a locked row is skipped: it reads as no such code.
Locked(k) == \E c \in Slots : at[c].on = "redeem" /\ at[c].code = k
\* Slip for a mutant run: the code is looked up, and marked when the link is made.
RedeemUnlocked(c, tg, k) ==
  /\ ~links[tg].live /\ codes[k].state = "issued"
  /\ Start(c, [on |-> "redeem", sender |-> tg, code |-> k])
  /\ UNCHANGED accountVars
Redeem(c, tg, k) ==
  /\ ~links[tg].live /\ codes[k].state = "issued" /\ ~Locked(k)
  /\ Start(c, [on |-> "redeem", sender |-> tg, code |-> k])
  /\ UNCHANGED accountVars
Link(c) ==
  /\ at[c].on = "redeem"
  /\ Linked(at[c].sender, at[c].code)
  /\ at' = [at EXCEPT ![c] = Idle]
  /\ UNCHANGED <<used, kept, threads, started>>

\* Login, and a refresh of session s: the row read live is revoked at the end whatever has
\* happened to it since, and a new session is opened beside it.
Admit(c, u, s) ==
  /\ Room
  /\ s = 0 => user[u] = "ACTIVE"
  /\ s # 0 => Live(s) /\ sessions[s].user = u
  /\ Start(c, [on |-> "admit", user |-> u, from |-> s])
  /\ UNCHANGED accountVars
Grant(c) ==
  /\ at[c].on = "admit" /\ user[at[c].user] = "ACTIVE" /\ Room
  /\ sessions' = Append(Revoked({at[c].from}), [user |-> at[c].user, live |-> TRUE])
  /\ at' = [at EXCEPT ![c] = Idle]
  /\ UNCHANGED <<user, tokens, members, plan, events, codes, links, used, kept, threads, started>>
-----------------------------------------------------------------------------
Goto(c, request) ==
  /\ at' = [at EXCEPT ![c] = request]
  /\ UNCHANGED <<accountVars, used, kept, threads, started>>
Advance(r) == [r EXCEPT !.pc = @ + 1]
Wrote(r, row) == [Advance(r) EXCEPT !.did = @ \cup {row}]
Poisoned(r) == [Advance(r) EXCEPT !.tx = "aborted"]

\* Every statement needs a transaction that is not aborted; otherwise it raises.
Statement(c, step) == Doing(c) = step /\ at[c].tx = "clean"

\* entitlement_service.check_metric_limit: what the month already holds, of what is committed.
Remaining(cx, metric) == Cap[plan[cx.tenant]][metric] - used[cx.workspace][metric]
\* Slip for a mutant run: the call that would exceed the limit is let through.
CheckLimitLoosely(c) ==
  /\ Statement(c, "limit")
  /\ Remaining(at[c].cx, Metric[at[c].on]) >= 0
  /\ Goto(c, Advance(at[c]))
CheckLimit(c) ==
  /\ Statement(c, "limit")
  /\ Remaining(at[c].cx, Metric[at[c].on]) >= 1
  /\ Goto(c, Advance(at[c]))

\* build_recall_bundle and, for an analysis, the pictures: the failing search is swallowed.
Recall(c) ==
  /\ Statement(c, "recall")
  /\ \E after \in {Advance(at[c]), Poisoned(at[c])} : Goto(c, after)

\* prepare_chat_stream writes the question; the MCP transport its session row.
Ask(c) ==
  /\ Statement(c, "ask") \/ Statement(c, "open")
  /\ Goto(c, Wrote(at[c], Doing(c)))

\* telegram/webhook._conversation_for.
Thread(c) ==
  /\ Statement(c, "thread")
  /\ Goto(c, IF threads[at[c].sender] = 0 THEN Wrote(at[c], "thread") ELSE Advance(at[c]))

\* The model answers, or a provider fails: the plain turn starts over with the next one, the
\* stream repeats only the call, and gives up with the question written.
ModelAnswers(c) ==
  /\ Doing(c) = "model"
  /\ Goto(c, Advance(at[c]))
\* Slip for a mutant run: one provider more than the chain holds.
ProviderBeyondChain(c) ==
  /\ Doing(c) = "model" /\ at[c].on \in {"plain", "stream"}
  /\ at[c].tried =< Providers
  /\ Goto(c, [at[c] EXCEPT !.tried = @ + 1, !.pc = IF at[c].on = "plain" THEN 1 ELSE @])
NextProvider(c) ==
  /\ Doing(c) = "model" /\ at[c].on \in {"plain", "stream"}
  /\ at[c].tried + 1 < Providers
  /\ Goto(c, [at[c] EXCEPT !.tried = @ + 1, !.pc = IF at[c].on = "plain" THEN 1 ELSE @])
StreamGivesOut(c) ==
  /\ Doing(c) = "model" /\ at[c].on = "stream"
  /\ at[c].tried + 1 = Providers
  /\ Goto(c, [at[c] EXCEPT !.pc = Len(Steps(c)) + 1])

\* dispatch_tool: one call over MCP, where an error ends the request; any number in the
\* decision stage, where it is handed to the model.
CallTool(c, name, failure, owners) ==
  LET answer == Dispatch(name, at[c].cx, at[c].tx, at[c].bound, owners, failure)
  IN /\ Doing(c) \in {"tool", "browse"}
     /\ Doing(c) = "tool" => answer.error = "none"
     /\ Goto(c, [at[c] EXCEPT !.tx = answer.tx, !.pc = IF Doing(c) = "tool" THEN @ + 1 ELSE @])
Decide(c) == Doing(c) = "browse" /\ Goto(c, Advance(at[c]))

\* agent_run_service.persist_agent_run: it does not raise.
Trace(c) ==
  /\ Doing(c) = "trace"
  /\ \/ at[c].tx = "clean" /\ Goto(c, Wrote(at[c], "trace"))
     \/ Goto(c, Poisoned(at[c]))

\* The answer, the audited call, the recommendation; then its usage, then the link's stamp.
Write(c) == Statement(c, "write") /\ Goto(c, Wrote(at[c], "work"))
\* Slip for a mutant run: the usage of a failed insert is given up, not the request.
MeterIfPossible(c) ==
  /\ Doing(c) = "meter"
  /\ \/ Goto(c, Wrote(at[c], "usage"))
     \/ Goto(c, Advance(at[c]))
Meter(c) == Statement(c, "meter") /\ Goto(c, Wrote(at[c], "usage"))
Stamp(c) == Statement(c, "stamp") /\ Goto(c, Advance(at[c]))
-----------------------------------------------------------------------------
\* What a transaction wrote becomes visible together; of an aborted one, nothing does.
Count(rows, row) == IF row \in rows THEN 1 ELSE 0
Settle(c, rows) ==
  LET w == at[c].cx.workspace
      m == Metric[at[c].on]
  IN /\ used' = [used EXCEPT ![w][m] = @ + Count(rows, "usage")]
     /\ kept' = [kept EXCEPT ![w][m] = @ + Count(rows, "work")]
     /\ threads' = IF "thread" \in rows THEN [threads EXCEPT ![at[c].sender] = @ + 1] ELSE threads
     /\ at' = [at EXCEPT ![c] = Idle]
     /\ UNCHANGED <<accountVars, started>>
Visible(c) == IF at[c].tx = "clean" THEN at[c].did ELSE {}

Commit(c) ==
  /\ Serving(c) /\ at[c].pc = Len(Steps(c)) + 1
  /\ Settle(c, Visible(c))

\* handle_update catches what a turn raises, answers with an apology, and the webhook commits.
\* A failed flush has rolled the session back by then.
Apologise(c) ==
  /\ Serving(c) /\ at[c].on = "telegram" /\ Doing(c) # "-"
  /\ Settle(c, IF Doing(c) \in {"thread", "limit", "recall", "model"} THEN Visible(c) ELSE {})

\* Anything else that raises, a client that leaves, a process that dies.
GiveUp(c) ==
  /\ at[c] # Idle
  /\ at' = [at EXCEPT ![c] = Idle]
  /\ UNCHANGED <<accountVars, used, kept, threads, started>>
-----------------------------------------------------------------------------
Hints(S) == {None} \cup S
Asked(s) == {cx : cx \in UNION {Resolve(sessions[s].user, t, w) : t \in Hints(Tenants), w \in Hints(Workspaces)}}

AccountStep ==
  \/ \E u \in Users : Signup(u) \/ VerifyEmail(u) \/ RequestPasswordReset(u) \/ ConfirmPasswordReset(u)
  \/ \E t \in tokens : TokenExpires(t)
  \/ \E s \in DOMAIN sessions : Logout(s)
  \/ \E m \in Invitations : Join(m)
  \/ \E e \in Checkouts : CheckoutCompleted(e)
  \/ \E k \in Codes : LinkCodeExpires(k)
  \/ \E k \in Codes, s \in DOMAIN sessions :
       Authenticated(s) /\ \E cx \in Asked(s) : IssueLinkCode(k, cx)
  \/ \E tg \in TelegramUsers, s \in DOMAIN sessions :
       Authenticated(s) /\ \E cx \in Asked(s) : RevokeLink(tg, cx)

Arrival ==
  \/ \E c \in Slots, s \in DOMAIN sessions, t \in Hints(Tenants), w \in Hints(Workspaces) :
       \E kind \in Surfaces \ {"telegram"} : Arrive(c, kind, s, t, w)
  \/ \E c \in Slots, tg \in TelegramUsers : ArriveTelegram(c, tg)
  \/ \E c \in Slots, tg \in TelegramUsers, k \in Codes : Redeem(c, tg, k)
  \/ \E c \in Slots, u \in Users, s \in {0} \cup DOMAIN sessions : Admit(c, u, s)

Rows == [user : Users, workspace : Workspaces]
Work(c) ==
  \/ CheckLimit(c) \/ Recall(c) \/ Ask(c) \/ Thread(c)
  \/ ModelAnswers(c) \/ NextProvider(c) \/ StreamGivesOut(c)
  \/ \E name \in Callable, failure \in Failure : CallTool(c, name, failure, Rows)
  \/ Decide(c) \/ Trace(c) \/ Write(c) \/ Meter(c) \/ Stamp(c)
  \/ Commit(c) \/ Apologise(c) \/ GiveUp(c) \/ Link(c) \/ Grant(c)

Next ==
  \/ AccountStep /\ UNCHANGED requestVars
  \/ Arrival
  \/ \E c \in Slots : Work(c)
Spec == Init /\ [][Next]_vars
-----------------------------------------------------------------------------
\* Whatever tool a request calls next, over either entrance, it is shown rows of the workspace
\* the request is about, one its user belongs to; of journal entries and alerts, the user's own.
Personal == {"list_journal_entries", "list_alerts"}
ReadsStayInScope ==
  \A c \in Slots : Serving(c) =>
    LET cx == at[c].cx
    IN /\ cx.workspace \in WorkspacesIn(cx.user, cx.tenant)
       /\ \A name \in DOMAIN TOOLS :
            \A row \in Dispatch(name, cx, at[c].tx, at[c].bound, Rows, "none").rows :
              /\ row.workspace = cx.workspace
              /\ name \in Personal => row.user = cx.user

\* What is kept of a request is metered, and nothing else is: through failovers, swallowed
\* errors, lost clients and aborted transactions, the month's usage counts exactly the answers,
\* audited calls and analyses that were committed.
KeptWorkIsMetered == used = kept

\* The limit is read before the work and the usage written after it, so overlapping requests
\* pass it together: it is exceeded by at most one for each request that can run beside another.
LargestCap(t, m) == LET held == {"FREE"} \cup {e.plan : e \in {f \in events : f.tenant = t}}
                    IN CHOOSE n \in {Cap[p][m] : p \in held} : \A p \in held : Cap[p][m] =< n
OverdraftIsBounded ==
  \A u \in Users, m \in Metrics :
    used[HomeOf[u].workspace][m] =< LargestCap(HomeOf[u].tenant, m) + Cardinality(Slots) - 1

\* A link code admits one Telegram account, however often and from wherever it is sent at once.
CodeLinksOneAccount ==
  \A k \in Codes : \A t1, t2 \in {tg \in TelegramUsers : links[tg].live} :
    links[t1].code = k /\ links[t2].code = k => t1 = t2
=============================================================================
