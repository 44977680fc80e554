----------------------------- MODULE KeyAuthority -----------------------------
(***************************************************************************)
(* The objects that keep a key pair: ProofAuthority (product-entry.js),    *)
(* EgressKeyAuthority (egress-vault.js), RailKeyAuthority (rail.js) and    *)
(* ActionKeyAuthority (action-rail.js).  Each makes its pair when it is    *)
(* first used.  Nothing is delivered to an object while it waits for its   *)
(* storage, but other requests are while it waits for the generation of a  *)
(* key.  The first two remember the promise of the pair, so that requests  *)
(* that come meanwhile wait for the same one; the rails do not.            *)
(***************************************************************************)
CONSTANTS
    Authorities,
    Memoised,       \* those that keep a "keyPromise"
    Users,          \* requests to the objects
    Pairs,          \* key pairs that may be generated
    NoPair, NoAuthority, Pending

ASSUME MemoAssumption == Memoised \subseteq Authorities
ASSUME PairAssumption ==
    /\ NoPair \notin Pairs /\ Pending \notin Pairs \cup {NoPair}
    /\ NoAuthority \notin Authorities

VARIABLES
    stored,         \* storage: "keys", or "key"
    keyPromise,     \* memory: none, pending or the pair
    user,           \* requests: step, authority, pair at hand
    minted,         \* pairs generated so far
    signed          \* history: pairs used, by authority

keyVars == <<stored, keyPromise, user, minted, signed>>

Away == [step |-> "away", at |-> NoAuthority, pair |-> NoPair]
Waiting(a) == [step |-> "waiting", at |-> a, pair |-> NoPair]
Generating(a) == [step |-> "generating", at |-> a, pair |-> NoPair]
Holding(a, k) == [step |-> "holding", at |-> a, pair |-> k]

KeyTypeOK ==
    /\ stored \in [Authorities -> Pairs \cup {NoPair}]
    /\ keyPromise \in [Authorities -> Pairs \cup {NoPair, Pending}]
    /\ user \in [Users -> [step : {"away", "waiting", "generating", "holding"},
                           at : Authorities \cup {NoAuthority}, pair : Pairs \cup {NoPair}]]
    /\ minted \subseteq Pairs
    /\ signed \subseteq Authorities \X Pairs

KeyInit ==
    /\ stored = [a \in Authorities |-> NoPair]
    /\ keyPromise = [a \in Authorities |-> NoPair]
    /\ user = [u \in Users |-> Away]
    /\ minted = {} /\ signed = {}

\* Mutant: every request loads the pair for itself.
Forgets(a) == FALSE

Remembers(a) == a \in Memoised

Remember(a, value) ==
    keyPromise' = IF Remembers(a) THEN [keyPromise EXCEPT ![a] = value] ELSE keyPromise

(* keys(), keyRecord(): the promise at hand, else what the storage has. *)
Join(u, a) ==
    /\ user[u] = Away /\ Remembers(a) /\ keyPromise[a] # NoPair
    /\ user' = [user EXCEPT ![u] = IF keyPromise[a] = Pending
                                   THEN Waiting(a)
                                   ELSE Holding(a, keyPromise[a])]
    /\ UNCHANGED <<stored, keyPromise, minted, signed>>

Read(u, a) ==
    /\ user[u] = Away /\ (Remembers(a) => keyPromise[a] = NoPair)
    /\ stored[a] # NoPair
    /\ user' = [user EXCEPT ![u] = Holding(a, stored[a])]
    /\ Remember(a, stored[a])
    /\ UNCHANGED <<stored, minted, signed>>

Generate(u, a) ==
    /\ user[u] = Away /\ (Remembers(a) => keyPromise[a] = NoPair)
    /\ stored[a] = NoPair
    /\ user' = [user EXCEPT ![u] = Generating(a)]
    /\ Remember(a, Pending)
    /\ UNCHANGED <<stored, minted, signed>>

\* Who shares the outcome of the generation that u began.
Sharing(u) ==
    {u} \cup {v \in Users : Remembers(user[u].at) /\ user[v] = Waiting(user[u].at)}

\* put; who waits for the promise continues with the same pair.
Keep(u, k) ==
    LET a == user[u].at IN
    /\ user[u].step = "generating" /\ k \notin minted
    /\ stored' = [stored EXCEPT ![a] = k]
    /\ user' = [v \in Users |-> IF v \in Sharing(u) THEN Holding(a, k) ELSE user[v]]
    /\ Remember(a, k)
    /\ minted' = minted \cup {k}
    /\ UNCHANGED signed

\* The generation fails: all who wait for it fail, the next one tries again.
Reject(u) ==
    LET a == user[u].at IN
    /\ user[u].step = "generating"
    /\ user' = [v \in Users |-> IF v \in Sharing(u) THEN Away ELSE user[v]]
    /\ Remember(a, NoPair)
    /\ UNCHANGED <<stored, minted, signed>>

\* /sign, /sign-bytes, /encrypt, or /public: the pair goes out.
Apply(u) ==
    /\ user[u].step = "holding"
    /\ signed' = signed \cup {<<user[u].at, user[u].pair>>}
    /\ user' = [user EXCEPT ![u] = Away]
    /\ UNCHANGED <<stored, keyPromise, minted>>

\* The object is evicted or restarted: its memory and its requests are gone.
Restart(a) ==
    /\ keyPromise' = [keyPromise EXCEPT ![a] = NoPair]
    /\ user' = [u \in Users |-> IF user[u].at = a THEN Away ELSE user[u]]
    /\ UNCHANGED <<stored, minted, signed>>

KeyNext ==
    \/ \E u \in Users : \/ \E a \in Authorities : Join(u, a) \/ Read(u, a) \/ Generate(u, a)
                        \/ \E k \in Pairs : Keep(u, k)
                        \/ Reject(u) \/ Apply(u)
    \/ \E a \in Authorities : Restart(a)

KeySpec == KeyInit /\ [][KeyNext]_keyVars

-----------------------------------------------------------------------------
(***************************************************************************)
(* "Concurrent first use preserves a single ... key ... across restart"    *)
(* (egress-execution-test.js:227): whatever an authority signed, sealed or *)
(* published was done with the pair it keeps, so its own signatures verify *)
(* and its own ciphertexts open for ever.  Only an authority that          *)
(* remembers its promise meets this.                                       *)
(***************************************************************************)
KeysStand == \A a \in Memoised : \A k \in Pairs : <<a, k>> \in signed => stored[a] = k
=============================================================================
