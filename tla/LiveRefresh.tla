---------------------------- MODULE LiveRefresh ----------------------------
(***************************************************************************)
(* XGuard Live: the shards that keep facts about software sources          *)
(* (live/store.ts, live/refresh.ts, LiveShard of live/objects.ts) and the  *)
(* control object they share (LiveControl), which leases a source's domain *)
(* to one refresh at a time and keeps the catalogue of all shards.         *)
(*                                                                         *)
(* All sources of the model have one domain.  A content stands for the     *)
(* body a source serves and for its hash and ETag; it is a function from   *)
(* the fact keys it has to their values.  Times are kept as what they are  *)
(* compared for: due or not, leased or not.  Every await is a step         *)
(* boundary, and a shard can be evicted at each of them.                   *)
(***************************************************************************)
EXTENDS Naturals, FiniteSets, Functions

CONSTANTS Sources,       \* the sources, which are also the entities
          Shards,
          ShardOf,       \* the placement of the entities
          Contents,      \* what a source can serve
          Exhaustive,    \* the sources whose adapter lists every fact
          NoContent,     \* no hash, no ETag
          NoSource, NoSnapshot, NoFlight,
          Bound          \* bounds: edits of the sources, orders of the owner,
                         \* faults, flights of the catalogue

ASSUME RefreshAssumption ==
  /\ ShardOf \in [Sources -> Shards]
  /\ NoContent \notin Contents /\ NoSource \notin Sources
  /\ \A c \in Contents : DOMAIN c # {}       \* observe refuses a body without facts
  /\ {"none", "cooldown"} \cap Shards = {}    \* a lease's token is a fresh UUID
  /\ Bound \in [{"edits", "orders", "faults", "flights"} -> Nat]

\* until_ms of the domain lease, by what it was last set for.
Past == 0      Gap == 1      Leased == 2      Cooldown == 3

VARIABLES
  served,      \* what each source serves now
  source,      \* rows of sources: enabled, due (next_fetch), leased, hash, etag
  manual,      \* settings manual-refresh:<id>
  facts,       \* current_facts of each source, each with its evidence
  backoff,     \* shards whose own copy of the domain is backed off
  worker,      \* the refresh a shard's alarm is running
  domain,      \* domain_leases at LiveControl: token and until
  suppressed,  \* entities whose row says the owner hid them
  catalog,     \* LiveControl: the snapshot in memory, the one stored, the flight
  owner,       \* the entity whose suppression is being answered
  refused,     \* ghost: a source answered 403 or 429 and its cooldown runs
  late,        \* ghost: the workers whose domain lease ran out
  hidden,      \* ghost: entities whose stored suppression was answered
  used         \* how much of each bound is used

shardVars == <<source, manual, facts, backoff>>
liveVars == <<served, source, manual, facts, backoff, worker, domain, suppressed,
              catalog, owner, refused, late, hidden, used>>

Use(kind) == /\ used[kind] < Bound[kind]
             /\ used' = [used EXCEPT ![kind] = @ + 1]

Idle == [step |-> "idle", source |-> NoSource]
NoRow == [enabled |-> FALSE, due |-> FALSE, leased |-> FALSE,
          hash |-> NoContent, etag |-> NoContent]
NoFacts == [k \in {} |-> NoContent]

(***************************************************************************)
(* Choosing a source and leasing the domain.                               *)
(***************************************************************************)

\* peekDue: queued manual refreshes first, then what is due.
Available(h) == {s \in Sources : /\ ShardOf[s] = h
                                 /\ source[s].enabled /\ ~source[s].leased
                                 /\ h \notin backoff}
PeekDue(h) == LET queued == Available(h) \cap manual
              IN  IF queued # {} THEN queued
                  ELSE {s \in Available(h) : source[s].due}

\* alarm: one refresh after the other, each from the source that is first.
Alarm(h) ==
  /\ worker[h] = Idle
  /\ \E s \in PeekDue(h) : worker' = [worker EXCEPT ![h] = [step |-> "asking", source |-> s]]
  /\ UNCHANGED <<served, shardVars, domain, suppressed, catalog, owner,
                 refused, late, hidden, used>>

\* source-lease: granted when the last lease, gap or cooldown is over;
\* otherwise the shard backs off, without having claimed the source.
LeaseGranted(h) ==
  /\ domain.until = Past
  /\ domain' = [token |-> h, until |-> Leased]
  /\ worker' = [worker EXCEPT ![h].step = "leased"]
  /\ UNCHANGED backoff

LeaseDenied(h) ==
  /\ domain.until # Past
  /\ backoff' = backoff \cup {h}
  /\ worker' = [worker EXCEPT ![h] = Idle]
  /\ UNCHANGED domain

SourceLease(h) ==
  /\ worker[h].step = "asking"
  /\ LeaseGranted(h) \/ LeaseDenied(h)
  /\ UNCHANGED <<served, source, manual, facts, suppressed, catalog, owner,
                 refused, late, hidden, used>>

\* claimDue: the same choice again after the wait; the manual request is served.
ClaimDue(h) ==
  LET s == worker[h].source IN
  /\ worker[h].step = "leased"
  /\ IF s \in PeekDue(h)
     THEN /\ source' = [source EXCEPT ![s].leased = TRUE]
          /\ manual' = manual \ {s}
          /\ worker' = [worker EXCEPT ![h].step = "fetching"]
     ELSE /\ worker' = [worker EXCEPT ![h].step = "releasing"]
          /\ UNCHANGED <<source, manual>>
  /\ UNCHANGED <<served, facts, backoff, domain, suppressed, catalog, owner,
                 refused, late, hidden, used>>

(***************************************************************************)
(* The answer of the source, checked and stored.                           *)
(***************************************************************************)

\* Mutant: a confirmation reaches every fact of the source.
MatchingAll(s, hash) == {k \in DOMAIN facts[s] : facts[s][k].value # NoContent}

\* The facts whose evidence is the body that was confirmed.
Matching(s, hash) == {k \in DOMAIN facts[s] : facts[s][k].hash = hash}

\* The row of a source after a successful refresh.
Refreshed(s, hash) == [source[s] EXCEPT !.due = FALSE, !.leased = FALSE,
                                        !.hash = hash, !.etag = hash]

\* revalidated: the facts of that body are verified again; removed ones stay so.
Confirm(f, body) == [f EXCEPT !.at = body, !.mark = IF @ = "removed" THEN @ ELSE "verified"]
Revalidated(s) ==
  LET hash == source[s].hash IN
  /\ facts' = [facts EXCEPT ![s] =
       [k \in DOMAIN facts[s] |-> IF k \in Matching(s, hash)
                                  THEN Confirm(facts[s][k], served[s]) ELSE facts[s][k]]]
  /\ source' = [source EXCEPT ![s] = Refreshed(s, hash)]

\* matchesCurrent: every fact of the body is the current one.
MatchesCurrent(s, body) ==
  \A k \in DOMAIN body : k \in DOMAIN facts[s] /\ facts[s][k].value = body[k]

\* observe: the facts of the body and, from an exhaustive adapter, the
\* removal of those it no longer lists.
Gone(s, body) == IF s \in Exhaustive
                 THEN {k \in DOMAIN facts[s] \ DOMAIN body : facts[s][k].value # NoContent}
                 ELSE {}
Observed(s, body, k) ==
  [value |-> IF k \in DOMAIN body THEN body[k] ELSE NoContent, hash |-> body,
   mark |-> IF k \in DOMAIN body THEN "verified" ELSE "removed", at |-> body]
Observe(s) ==
  LET body == served[s]
      new == DOMAIN body \cup Gone(s, body)
  IN  /\ facts' = [facts EXCEPT ![s] =
           [k \in DOMAIN facts[s] \cup new |->
              IF k \in new THEN Observed(s, body, k) ELSE facts[s][k]]]
      /\ source' = [source EXCEPT ![s] = Refreshed(s, body)]

\* 304, or 200 with the known body, confirms; any other body is observed.
NotModified(s) == source[s].etag # NoContent /\ source[s].etag = served[s]
Confirms(s) == /\ source[s].hash = served[s] /\ Matching(s, source[s].hash) # {}
               /\ NotModified(s) \/ MatchesCurrent(s, served[s])

Fetch(h) ==
  LET s == worker[h].source IN
  /\ worker[h].step = "fetching"
  /\ IF Confirms(s) THEN Revalidated(s) ELSE Observe(s)
  /\ worker' = [worker EXCEPT ![h].step = "releasing"]
  /\ UNCHANGED <<served, manual, backoff, domain, suppressed, catalog, owner,
                 refused, late, hidden, used>>

\* failed: nothing is verified any more, and the source is retried later.
\* The answers 403 and 429 also cool the whole domain down.
Stale(f) == [f EXCEPT !.mark = IF @ = "verified" THEN "stale" ELSE @]
FetchFails(h) ==
  LET s == worker[h].source IN
  /\ worker[h].step = "fetching"
  /\ facts' = [facts EXCEPT ![s] = [k \in DOMAIN facts[s] |-> Stale(facts[s][k])]]
  /\ source' = [source EXCEPT ![s] = [@ EXCEPT !.leased = FALSE, !.due = FALSE]]
  /\ \E step \in {"cooling", "releasing"} : worker' = [worker EXCEPT ![h].step = step]
  /\ Use("faults")
  /\ UNCHANGED <<served, manual, backoff, domain, suppressed, catalog, owner,
                 refused, late, hidden>>

SourceCooldown(h) ==
  /\ worker[h].step = "cooling"
  /\ domain' = [token |-> "cooldown", until |-> Cooldown]
  /\ refused' = TRUE
  /\ worker' = [worker EXCEPT ![h].step = "releasing"]
  /\ UNCHANGED <<served, shardVars, suppressed, catalog, owner, late, hidden,
                 used>>

\* Mutant: a release does not compare the token.
ReleaseAny(h) == [token |-> IF domain.token = h THEN "none" ELSE "ended", until |-> Gap]

\* source-release: only the holder of the token ends the lease.
ReleaseDomain(h) == IF domain.token = h THEN [token |-> "none", until |-> Gap] ELSE domain

SourceRelease(h) ==
  /\ worker[h].step = "releasing"
  /\ domain' = ReleaseDomain(h)
  /\ worker' = [worker EXCEPT ![h] = Idle]
  /\ late' = late \ {h}
  /\ UNCHANGED <<served, shardVars, suppressed, catalog, owner, refused, hidden,
                 used>>

\* The shard is evicted: its refresh ends where it was.
Evicted(h) ==
  /\ worker[h] # Idle
  /\ worker' = [worker EXCEPT ![h] = Idle]
  /\ late' = late \ {h} /\ Use("faults")
  /\ UNCHANGED <<served, shardVars, domain, suppressed, catalog, owner, refused,
                 hidden>>

(***************************************************************************)
(* Time, and what the sources serve.                                       *)
(***************************************************************************)

ComesDue(s) ==
  /\ source[s].enabled /\ ~source[s].due /\ worker[ShardOf[s]].source # s
  /\ source' = [source EXCEPT ![s].due = TRUE]
  /\ UNCHANGED <<served, manual, facts, backoff, worker, domain, suppressed,
                 catalog, owner, refused, late, hidden, used>>

SourceLeaseEnds(s) ==
  /\ source[s].leased
  /\ source' = [source EXCEPT ![s].leased = FALSE]
  /\ UNCHANGED <<served, manual, facts, backoff, worker, domain, suppressed,
                 catalog, owner, refused, late, hidden, used>>

\* until_ms passes.  Whoever still works under that lease is late from here on.
Working(h) == worker[h].step \in {"leased", "fetching"}
DomainEnds ==
  /\ domain.until # Past
  /\ domain' = [domain EXCEPT !.until = Past]
  /\ refused' = (refused /\ domain.until # Cooldown)
  /\ late' = IF domain.until = Gap THEN late ELSE late \cup {h \in Shards : Working(h)}
  /\ UNCHANGED <<served, shardVars, worker, suppressed, catalog, owner, hidden,
                 used>>

BackoffEnds(h) ==
  /\ h \in backoff
  /\ backoff' = backoff \ {h}
  /\ UNCHANGED <<served, source, manual, facts, worker, domain, suppressed,
                 catalog, owner, refused, late, hidden, used>>

Edit(s) ==
  /\ \E c \in Contents \ {served[s]} : served' = [served EXCEPT ![s] = c]
  /\ Use("edits")
  /\ UNCHANGED <<shardVars, worker, domain, suppressed, catalog, owner, refused,
                 late, hidden>>

(***************************************************************************)
(* The owner: refresh, source-enabled and suppress.                        *)
(***************************************************************************)

Refresh(s) ==
  /\ source[s].enabled
  /\ source' = [source EXCEPT ![s].due = TRUE]
  /\ manual' = manual \cup {s}
  /\ Use("orders")
  /\ UNCHANGED <<served, facts, backoff, worker, domain, suppressed, catalog,
                 owner, refused, late, hidden>>

SourceEnabled(s) ==
  /\ source' = [source EXCEPT ![s].enabled = ~@]
  /\ Use("orders")
  /\ UNCHANGED <<served, manual, facts, backoff, worker, domain, suppressed,
                 catalog, owner, refused, late, hidden>>

\* suppress updates the row of the entity in its shard, and only then is the
\* catalogue invalidated.  Before the first observation there is no row: the
\* owner is answered as ever, and nothing is stored.
HasRow(s) == facts[s] # NoFacts
Suppress(s) ==
  /\ owner = NoSource
  /\ \E order \in {suppressed \cup {s}, suppressed \ {s}} :
       suppressed' = IF HasRow(s) THEN order ELSE suppressed
  /\ hidden' = hidden \cap suppressed'
  /\ owner' = s
  /\ Use("orders")
  /\ UNCHANGED <<served, shardVars, worker, domain, catalog, refused, late>>

(***************************************************************************)
(* The catalogue of LiveControl.  A snapshot is the set of entities it     *)
(* shows; one past its fifteen minutes is never served again.              *)
(***************************************************************************)

Visible(h) == {s \in Sources : ShardOf[s] = h /\ HasRow(s) /\ s \notin suppressed}

controlVars == <<served, shardVars, worker, domain, suppressed, refused, late>>

LoadStored ==
  /\ catalog.value = NoSnapshot /\ catalog.stored # NoSnapshot
  /\ catalog' = [catalog EXCEPT !.value = catalog.stored]
  /\ UNCHANGED <<controlVars, owner, hidden, used>>

StartFlight ==
  /\ catalog.value = NoSnapshot /\ catalog.stored = NoSnapshot
  /\ catalog.flight = NoFlight
  /\ catalog' = [catalog EXCEPT !.flight = [h \in {} |-> {}]]
  /\ Use("flights")
  /\ UNCHANGED <<controlVars, owner, hidden>>

ReadSummary(h) ==
  /\ catalog.flight # NoFlight /\ h \notin DOMAIN catalog.flight
  /\ catalog' = [catalog EXCEPT !.flight =
                   [g \in DOMAIN catalog.flight \cup {h} |->
                      IF g = h THEN Visible(h) ELSE catalog.flight[g]]]
  /\ UNCHANGED <<controlVars, owner, hidden, used>>

\* The snapshot is stored if the write allowance lets it, and kept in memory.
LandFlight ==
  /\ catalog.flight # NoFlight /\ DOMAIN catalog.flight = Shards
  /\ LET value == UNION Range(catalog.flight) IN
       \E stored \in {value, catalog.stored} :
         catalog' = [value |-> value, stored |-> stored, flight |-> NoFlight]
  /\ UNCHANGED <<controlVars, owner, hidden, used>>

\* Mutant: the invalidation does not wait for the flight.
NotAwaited == TRUE

\* catalog-invalidate awaits the flight, which may have read the old state.
Landed == catalog.flight = NoFlight

CatalogInvalidate ==
  /\ owner # NoSource /\ Landed
  /\ catalog' = [catalog EXCEPT !.value = NoSnapshot, !.stored = NoSnapshot]
  /\ hidden' = hidden \cup ({owner} \cap suppressed)
  /\ owner' = NoSource
  /\ UNCHANGED <<controlVars, used>>

SnapshotExpires ==
  /\ {catalog.value, catalog.stored} # {NoSnapshot}
  /\ catalog' = [catalog EXCEPT !.value = NoSnapshot, !.stored = NoSnapshot]
  /\ UNCHANGED <<controlVars, owner, hidden, used>>

\* LiveControl is evicted: memory, flight and a waiting request are gone.
ControlEvicted ==
  /\ catalog' = [catalog EXCEPT !.value = NoSnapshot, !.flight = NoFlight]
  /\ owner' = NoSource /\ Use("faults")
  /\ UNCHANGED <<controlVars, hidden>>

Start ==
  /\ served \in [Sources -> Contents]
  /\ source = [s \in Sources |-> [NoRow EXCEPT !.enabled = TRUE, !.due = TRUE]]
  /\ manual = {} /\ facts = [s \in Sources |-> NoFacts]
  /\ backoff = {} /\ worker = [h \in Shards |-> Idle]
  /\ domain = [token |-> "none", until |-> Past]
  /\ suppressed = {} /\ owner = NoSource
  /\ catalog = [value |-> NoSnapshot, stored |-> NoSnapshot, flight |-> NoFlight]
  /\ refused = FALSE /\ late = {} /\ hidden = {}

LiveInit == Start /\ used = [kind \in DOMAIN Bound |-> 0]

LiveNext ==
  \/ \E h \in Shards : \/ Alarm(h) \/ SourceLease(h) \/ ClaimDue(h)
                       \/ Fetch(h) \/ FetchFails(h) \/ SourceCooldown(h)
                       \/ SourceRelease(h) \/ Evicted(h) \/ BackoffEnds(h)
                       \/ ReadSummary(h)
  \/ \E s \in Sources : \/ ComesDue(s) \/ SourceLeaseEnds(s) \/ Edit(s)
                        \/ Refresh(s) \/ SourceEnabled(s) \/ Suppress(s)
  \/ DomainEnds \/ LoadStored \/ StartFlight \/ LandFlight
  \/ CatalogInvalidate \/ SnapshotExpires \/ ControlEvicted

LiveSpec == LiveInit /\ [][LiveNext]_liveVars

(***************************************************************************)
(* Properties                                                              *)
(***************************************************************************)

\* A fact published as verified has the value its source served when it was
\* last verified, and one published as removed was then missing: whatever
\* bodies came and went, a 304 confirms no fact of an earlier body.
VerifiedTruthful ==
  \A s \in Sources : \A k \in DOMAIN facts[s] :
    LET f == facts[s][k] IN
    /\ f.mark = "verified" => k \in DOMAIN f.at /\ f.at[k] = f.value
    /\ f.mark = "removed" => k \notin DOMAIN f.at

\* The domain is leased to a refresh only when no cooldown that a source asked
\* for is running and every other refresh still at work has outlived its lease.
DomainShared ==
  [][\A h \in Shards :
       worker[h].step = "asking" /\ worker'[h].step = "leased" =>
         /\ ~refused
         /\ \A g \in Shards \ {h} : Working(g) => g \in late]_liveVars

\* Once the owner was answered that an entity is suppressed, and its shard had a
\* row to store that in, no catalogue shows the entity until the owner takes the
\* suppression back, not even a catalogue whose reads began before.
SuppressedHidden ==
  \A snapshot \in {catalog.value, catalog.stored} \ {NoSnapshot} : snapshot \cap hidden = {}
=============================================================================
