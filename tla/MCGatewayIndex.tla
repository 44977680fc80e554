--------------------------- MODULE MCGatewayIndex ----------------------------
(***************************************************************************)
(* The objects of the gateway that are not one operation's: the books and  *)
(* what is decided before an operation begins.  They share no state, so    *)
(* each is explored from initial states in which the other is at rest.     *)
(***************************************************************************)
EXTENDS CommerceLedger, PaidAdmission, TLC

CONSTANTS o1, o2, b1, feed, batch, blue, green, r1, r2, q1, q2, a1, a2, i1, i2, u1, u2, u3

\* Both operations were paid by one wallet, at prices no sum of which collides.
OneWallet == [o \in Ops |-> b1]
TwoPrices == [o \in Ops |-> IF o = o1 THEN 3 ELSE 5]
\* It bought an outcome and a Live service.
OneOfEach == [o \in Ops |-> IF o = o1 THEN feed ELSE batch]

\* A deployment lowers the price of a plain fetch below its cost, raises that
\* of an outcome, takes a smaller fee from sellers and adds the testnet.
OldPrices == [fetch |-> 3, testnet |-> 3, outcome |-> 10, live |-> 5, seller |-> 20]
NewPrices == [OldPrices EXCEPT !.fetch = 2, !.outcome = 11]
Environment(prices, fee, testnet) ==
    [payTo |-> "treasury", price |-> prices, keeps |-> [prices EXCEPT !.seller = fee],
     mainnet |-> TRUE, testnet |-> testnet, payable |-> [o \in Offers |-> TRUE],
     budgeted |-> TRUE, budget |-> [infra |-> 1, fees |-> 1, bps |-> 3000],
     liveInfra |-> 2, rail |-> [mainnet |-> u1, testnet |-> u3]]
TwoDeployments == blue :> Environment(OldPrices, 10, FALSE)
                  @@ green :> Environment(NewPrices, 9, TRUE)

Issued(o) ==
    [known |-> TRUE, offer |-> o, input |-> i1, terms |-> Terms(blue, o),
     keeps |-> EnvOf[blue].keeps[o], budget |-> BudgetOf(blue, o), expires |-> QuoteFor]

\* Nobody asks the gateway for anything.
NoRequests ==
    /\ now = MaxNow
    /\ rail = [u \in Rails |-> NoRail] /\ live = NoLive
    /\ ready = [d \in Isolates |-> NotReady]
    /\ quote = [q \in Quotes |-> Issued("fetch")]
    /\ req = [r \in Requests |-> [step |-> "done"]]
    /\ reserved = [q \in Quotes |-> None] /\ op = [a \in Auths |-> NoOp]

\* One buyer and one quote, under either deployment.
Pricing ==
    /\ now = 0
    /\ rail = [u \in Rails |-> NoRail] /\ live = NoLive
    /\ ready = [d \in Isolates |-> NotReady]
    /\ quote = [q \in Quotes |-> IF q = q1 THEN NoQuote ELSE Issued("fetch")]
    /\ req = [r \in Requests |-> [step |-> IF r = r1 THEN "idle" ELSE "done"]]
    /\ reserved = [q \in Quotes |-> None] /\ op = [a \in Auths |-> NoOp]

\* One buyer, beside another whose payment is being settled, when one more failure opens the circuits of
\* the rail and of the Live services.
SettleFailed == [phase |-> "settle", ok |-> FALSE, counted |-> TRUE, at |-> 0]
Settling == [step |-> "settle", at |-> blue, offer |-> "live", input |-> i1, q |-> q2, auth |-> a2,
             pays |-> Terms(blue, "live"), rail |-> u1]
Verified ==
    [status |-> "verified", q |-> q2, input |-> i1, terms |-> Terms(blue, "live"),
     pays |-> Terms(blue, "live"), budget |-> BudgetOf(blue, "live"), floor |-> BudgetOf(blue, "live"),
     keeps |-> EnvOf[blue].keeps["live"], rail |-> u1]
Strained ==
    /\ now = 0
    /\ rail = [u \in Rails |-> IF u # u1 THEN NoRail ELSE
                 [known |-> TRUE, seen |-> <<SettleFailed, SettleFailed>>,
                  fails |-> [verify |-> 0, settle |-> 2], until |-> 0]]
    /\ live = [known |-> TRUE, since |-> 0, failures |-> 2, until |-> 0]
    /\ ready = [d \in Isolates |-> NotReady]
    /\ quote = [q \in Quotes |-> Issued("live")]
    /\ req = [r \in Requests |-> IF r = r1 THEN Waiting ELSE Settling]
    /\ reserved = [q \in Quotes |-> IF q = q1 THEN None ELSE a2]
    /\ op = [a \in Auths |-> IF a = a1 THEN NoOp ELSE Verified]

\* Every operation was delivered and booked.
AllBooked ==
    /\ life = [o \in Ops |-> "succeeded"] /\ row = life
    /\ pending = [o \in Ops |-> FALSE] /\ alarm = pending
    /\ failed = [o \in Ops |-> 0]
    /\ call = [o \in Ops |-> [why \in Reasons |-> NoCall]]
    /\ totals = [cash |-> 8, recognized |-> 8, liability |-> 0, deliveries |-> 2,
                 paying |-> 1, repeat |-> 1]
    /\ wallet = [b \in Payers |-> 2]
    /\ share = feed :> [cash |-> 3, recognized |-> 3, liability |-> 0, deliveries |-> 1,
                        paying |-> 1, repeat |-> 0]
               @@ batch :> [cash |-> 5, recognized |-> 5, liability |-> 0, deliveries |-> 1,
                            paying |-> 0, repeat |-> 0]
    /\ bought = [c \in Capabilities |-> [b \in Payers |-> 1]]

MCInit ==
    \/ Init /\ NoRequests
    \/ AllBooked /\ (Pricing \/ Strained)

MCNext ==
    \/ Next /\ UNCHANGED admission
    \/ AdmissionNext /\ UNCHANGED vars

MCSpec == MCInit /\ [][MCNext]_<<vars, admission>> /\ Fairness
=============================================================================
