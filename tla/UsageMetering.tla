---------------------------- MODULE UsageMetering -----------------------------
(***************************************************************************)
(* Self-reported token usage (agent-token-usage.js, core/agent-usage.js):  *)
(* a report passes the rate of its source, the authentication of its       *)
(* operator and the rate of its tenant, and is recorded by the meter       *)
(* object of the tenant in one transaction.  A report carries one or two   *)
(* event keys (the header and the body each may name one); whoever repeats *)
(* it with one of them is told the first answer.  A report stands for what *)
(* its fingerprint covers; the shapes it may be sent in are left out, and  *)
(* so is the check that storage belongs to its tenant, which its name      *)
(* already decides.                                                        *)
(***************************************************************************)
EXTENDS Naturals, FiniteSetsExt

CONSTANTS
    Reports,
    KeysOf,         \* report: its event keys
    ContentOf,      \* report: what its fingerprint is of
    TenantOf,       \* report: tenant of its operator key
    TokensOf,       \* content: total tokens
    Partial,        \* contents without an input or output count
    Clients,        \* Workers
    Sources,        \* client addresses
    MonthOf,        \* minute: the month it is in
    RateLimit,      \* USAGE_RATE_LIMIT
    MaxCount,       \* Number.MAX_SAFE_INTEGER
    MaxPosts, MaxMinute,    \* bounds of the instance
    NoEvent, NoReport

EventKeys == UNION {KeysOf[r] : r \in Reports}
Contents == {ContentOf[r] : r \in Reports}
Tenants == {TenantOf[r] : r \in Reports}
Minutes == 0..MaxMinute
Months == {MonthOf[n] : n \in Minutes}

ASSUME ReportAssumption ==
    /\ \A r \in Reports : KeysOf[r] # {}
    /\ TokensOf \in [Contents -> Nat]
    /\ NoReport \notin Reports
    /\ NoEvent \notin [id : Nat, content : Contents, in : Months]
\* A key is a digest.
ASSUME DigestAssumption == IsFiniteSet(EventKeys)
ASSUME UsageBoundsAssumption ==
    {RateLimit, MaxCount, MaxPosts, MaxMinute} \subseteq Nat

VARIABLES
    minute,
    rate,           \* meter objects: "agent-usage:rate"
    event,          \* tenant meters: "agent-usage:event:" records
    month,          \* tenant meters: "agent-usage:month:" aggregates
    client,         \* Workers: step, report, request id, source
    posts,          \* reports posted so far; each has a request id of its own
    told            \* history: accepted answers

usageVars == <<minute, rate, event, month, client, posts, told>>

NoCounts == [events |-> 0, tokens |-> 0, incomplete |-> 0]
Off == [step |-> "off", report |-> NoReport]

UsageInit ==
    /\ minute = 0
    /\ rate = [m \in Sources \cup Tenants |-> [bucket |-> 0, count |-> 0]]
    /\ event = [t \in Tenants |-> [k \in EventKeys |-> NoEvent]]
    /\ month = [t \in Tenants |-> [n \in Months |-> NoCounts]]
    /\ client = [c \in Clients |-> Off]
    /\ posts = 0 /\ told = {}

(* admitUsage: one counter per object, for the minute it was last used in. *)
CountNow(m) == IF rate[m].bucket = minute THEN rate[m].count ELSE 0

Admit(m) ==
    /\ CountNow(m) < RateLimit
    /\ rate' = [rate EXCEPT ![m] = [bucket |-> minute, count |-> CountNow(m) + 1]]

To(c, step) == client' = [client EXCEPT ![c].step = step]
Leave(c) == client' = [client EXCEPT ![c] = Off]

(* handleAgentUsageRoute *)
PostReport(c, r, s) ==
    /\ client[c] = Off /\ posts < MaxPosts
    /\ Admit(s)
    /\ posts' = posts + 1
    /\ client' = [client EXCEPT ![c] = [step |-> "posted", report |-> r, id |-> posts']]
    /\ UNCHANGED <<minute, event, month, told>>

Authenticate(c) ==
    /\ client[c].step = "posted"
    /\ To(c, "authenticated")
    /\ UNCHANGED <<minute, rate, event, month, posts, told>>

AdmitTenant(c) ==
    /\ client[c].step = "authenticated"
    /\ Admit(TenantOf[client[c].report])
    /\ To(c, "admitted")
    /\ UNCHANGED <<minute, event, month, posts, told>>

\* 401, 403, 429 or 503, or the Worker dies: nothing was recorded.
Dismiss(c) ==
    /\ client[c] # Off
    /\ Leave(c)
    /\ UNCHANGED <<minute, rate, event, month, posts, told>>

(* recordUsage *)
Prior(t, r) == {event[t][k] : k \in KeysOf[r]} \ {NoEvent}

\* Mutant: events of one content are taken for one event.
SameContent(prior, content) == \A e \in prior : e.content = content

\* All the keys that are known name one event, of this content.
OneEvent(prior, content) ==
    /\ \A e \in prior : e.content = content
    /\ \A e, f \in prior : e.id = f.id

\* Every key is bound to an event that is known, also one that was new.
Bind(t, r, e) == event' = [event EXCEPT ![t] = [k \in EventKeys |-> IF k \in KeysOf[r] THEN e ELSE @[k]]]

Tell(r, id) == told' = told \cup {[report |-> r, id |-> id]}

Duplicate(c) ==
    LET r == client[c].report  t == TenantOf[r]  prior == Prior(t, r) IN
    /\ client[c].step = "admitted" /\ prior # {}
    /\ OneEvent(prior, ContentOf[r])
    /\ \E e \in prior : Bind(t, r, e) /\ Tell(r, e.id)
    /\ Leave(c)
    /\ UNCHANGED <<minute, rate, month, posts>>

Added(counts, content) ==
    [events |-> counts.events + 1, tokens |-> counts.tokens + TokensOf[content],
     incomplete |-> counts.incomplete + (IF content \in Partial THEN 1 ELSE 0)]

Count(c) ==
    LET r == client[c].report  t == TenantOf[r]  n == MonthOf[minute]
        counts == Added(month[t][n], ContentOf[r])
    IN
    /\ client[c].step = "admitted" /\ Prior(t, r) = {}
    /\ \A field \in DOMAIN counts : counts[field] <= MaxCount
    /\ month' = [month EXCEPT ![t][n] = counts]
    /\ Bind(t, r, [id |-> client[c].id, content |-> ContentOf[r], in |-> n])
    /\ Tell(r, client[c].id)
    /\ Leave(c)
    /\ UNCHANGED <<minute, rate, posts>>

Tick ==
    /\ minute < MaxMinute
    /\ minute' = minute + 1
    /\ UNCHANGED <<rate, event, month, client, posts, told>>

UsageNext ==
    \/ \E c \in Clients : \/ \E r \in Reports, s \in Sources : PostReport(c, r, s)
                          \/ Authenticate(c) \/ AdmitTenant(c) \/ Dismiss(c)
                          \/ Duplicate(c) \/ Count(c)
    \/ Tick

UsageSpec == UsageInit /\ [][UsageNext]_usageVars

-----------------------------------------------------------------------------
(***************************************************************************)
(* However reports are repeated, raced, sent again under another key or    *)
(* over the end of a month, an event is counted once, in the month it was  *)
(* first recorded in, and what an accepted answer said stays so: each key  *)
(* of the report names the event of that answer, with what was reported.   *)
(***************************************************************************)
Kept(t) == {event[t][k] : k \in EventKeys} \ {NoEvent}
KeptIn(t, n) == {e \in Kept(t) : e.in = n}
TokensIn(kept) == SumFunctionOnSet([e \in kept |-> TokensOf[e.content]], kept)

CountedOnce ==
    /\ \A t \in Tenants : \A n \in Months :
        /\ month[t][n].events = Cardinality(KeptIn(t, n))
        /\ month[t][n].tokens = TokensIn(KeptIn(t, n))
        /\ month[t][n].incomplete = Cardinality({e \in KeptIn(t, n) : e.content \in Partial})
    /\ \A answer \in told : \A k \in KeysOf[answer.report] :
        LET e == event[TenantOf[answer.report]][k] IN
        e # NoEvent /\ e.id = answer.id /\ e.content = ContentOf[answer.report]
=============================================================================
