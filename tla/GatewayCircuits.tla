--------------------------- MODULE GatewayCircuits ----------------------------
(***************************************************************************)
(* What the gateway remembers about the services it depends on: the health *)
(* of each facilitator rail (core/payment-health.js) and the circuit of    *)
(* the paid Live services (live-paid-ledger.js), both kept by Durable      *)
(* Objects in transactions, and the readiness that each Worker isolate     *)
(* caches (live-paid-entry.js).  The operators are the steps; PaidAdmission *)
(* takes them inside its requests.                                         *)
(***************************************************************************)
EXTENDS Naturals, Sequences, FiniteSets

CONSTANTS
    Rails,          \* facilitators, by network
    Isolates,       \* Worker isolates; each runs one deployment
    KeptSeen,       \* observations a rail keeps (256)
    SeenFor,        \* and for how long (an hour)
    MaxRails,       \* rails that are recorded (16)
    TripAfter,      \* failures that open a circuit (3)
    OpenFor,        \* how long a rail's circuit stays open (60 s)
    WindowFor,      \* the window in which Live failures are counted (300 s)
    PauseFor,       \* the pause that follows (900 s)
    ReadyFor        \* how long an isolate's readiness is used (60 s)

ASSUME CircuitAssumption ==
    /\ {KeptSeen, SeenFor, MaxRails, TripAfter, OpenFor} \subseteq Nat \ {0}
    /\ {WindowFor, PauseFor, ReadyFor} \subseteq Nat \ {0}

VARIABLES
    now,        \* the clock
    rail,       \* "facilitator-health:rail:" rows
    live,       \* "live-circuit:v1"
    ready       \* isolate: the readiness it cached

circuits == <<rail, live, ready>>

Phases == {"verify", "settle"}

NoRail == [known |-> FALSE, seen |-> <<>>, fails |-> [p \in Phases |-> 0], until |-> 0]
NoLive == [known |-> FALSE, since |-> 0, failures |-> 0, until |-> 0]
NotReady == [known |-> FALSE, at |-> 0, ok |-> FALSE]

Events == [phase : Phases, ok : BOOLEAN, counted : BOOLEAN, at : Nat]

CircuitsTyped ==
    /\ now \in Nat
    /\ rail \in [Rails -> [known : BOOLEAN, seen : Seq(Events),
                           fails : [Phases -> Nat], until : Nat]]
    /\ live \in [known : BOOLEAN, since : Nat, failures : Nat, until : Nat]
    /\ ready \in [Isolates -> [known : BOOLEAN, at : Nat, ok : BOOLEAN]]

RailOpen(u) == rail[u].until > now
Paused == live.until > now

-----------------------------------------------------------------------------
(* recordPaymentHealth. *)

\* Mutant: any success closes the circuit.
ClosedBySuccess(fails, until) == 0
\* A success closes the circuit unless the other phase still fails.
AfterSuccess(fails, until) ==
    IF \A p \in Phases : fails[p] < TripAfter THEN 0 ELSE until

\* What an hour and the size of the sample leave of the observations.  They are
\* in order of time, so the filter and the slice both drop the first ones.
Recent(seen) ==
    LET stays(j) == seen[j].at + SeenFor >= now /\ j + KeptSeen > Len(seen) + 1
        first == CHOOSE f \in 1..Len(seen) + 1 : \A j \in DOMAIN seen : stays(j) <=> j >= f IN
    SubSeq(seen, first, Len(seen))

\* counted: a transport failure or an invalid response; a refusal is neither.
Observed(row, phase, ok, counted) ==
    LET fails == [row.fails EXCEPT ![phase] =
                    IF ok THEN 0 ELSE IF counted THEN @ + 1 ELSE @] IN
    [known |-> TRUE,
     seen |-> Append(Recent(row.seen),
                     [phase |-> phase, ok |-> ok, counted |-> counted, at |-> now]),
     fails |-> fails,
     until |-> IF ok THEN AfterSuccess(fails, row.until)
               ELSE IF counted /\ fails[phase] >= TripAfter THEN now + OpenFor
               ELSE row.until]

Known == {u \in Rails : rail[u].known}

Observe(u, phase, ok, counted) ==
    rail' = IF rail[u].known \/ Cardinality(Known) < MaxRails
            THEN [rail EXCEPT ![u] = Observed(@, phase, ok, counted)]
            ELSE rail

\* selectFacilitator: the configured rail, or a fallback that answers, unless
\* their circuits are open.
Selectable(primary, fallbacks) ==
    IF ~RailOpen(primary) THEN {primary}
    ELSE {u \in fallbacks : ~RailOpen(u)}

-----------------------------------------------------------------------------
(* /live/health and livePaidReadiness. *)

\* Mutant: a new window forgets the pause of the last one.
WindowOf(c) ==
    IF ~c.known \/ now > c.since + WindowFor
    THEN [known |-> TRUE, since |-> now, failures |-> 0, until |-> 0]
    ELSE c
CurrentWindow(c) ==
    IF ~c.known \/ now > c.since + WindowFor
    THEN [known |-> TRUE, since |-> now, failures |-> 0, until |-> c.until]
    ELSE c

\* A purchase that failed or was slow is counted.
LiveFailure ==
    LET c == CurrentWindow(live) IN
    live' = [c EXCEPT !.failures = @ + 1,
                      !.until = IF c.failures + 1 >= TripAfter THEN now + PauseFor ELSE @]

\* /live/circuit-reset
ResetLive == live' = NoLive

CachedReady(d) == ready[d].known /\ now < ready[d].at + ReadyFor

\* The readiness that the isolate answers from: cached, or probed, with the data,
\* the signer and the facilitator up or not.
Probe(d) ==
    \/ CachedReady(d) /\ UNCHANGED ready
    \/ ~CachedReady(d) /\ \E up \in BOOLEAN :
          ready' = [ready EXCEPT ![d] = [known |-> TRUE, at |-> now, ok |-> up /\ ~Paused]]
=============================================================================
