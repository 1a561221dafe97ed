---------------------------- MODULE PhoneProofs ----------------------------
(***************************************************************************)
(* What a phone relies on: the price it showed is the price that is asked  *)
(* and paid out, its session outlives the refreshes its calls share, a     *)
(* listing that was removed does not come back to its screens, the         *)
(* listings it finds are those it can book, page by page and each once,    *)
(* and the code it scans is spent once.                                   *)
(***************************************************************************)
EXTENDS HandoverQr, Search, MobileSession, AppCache, Pricing, FiniteSetTheorems, TLAPS

\* One handler moves.
LEMMA OneMoves ==
    ASSUME req = [v \in Workers |-> req[v]],
           NEW w \in Workers, NEW q, req' = [req EXCEPT ![w] = q]
    PROVE  /\ req' = [v \in Workers |-> req'[v]]
           /\ req'[w] = q
           /\ \A v \in Workers \ {w} : req'[v] = req[v]
  OBVIOUS

----------------------------------------------------------------------------
(* One price.  Every handler carries the amounts of the price it read; the *)
(* row of the booking is written once, and whatever comes after it is      *)
(* computed from the row.                                                  *)

\* A percentage of an amount is part of it.
LEMMA PartOfAmount ==
    ASSUME NEW amount \in Nat, NEW percent \in 0 .. 100
    PROVE  Percentage(amount, percent) \in 0 .. amount
<1>1. amount * percent \in Nat /\ amount * percent <= amount * 100
  OBVIOUS
<1> QED
  BY <1>1 DEF Percentage

\* The days of a booking, and those its screen showed.
Rounded(b) ==
    \/ b.days = DaysShown(b.shown)
    \/ b.days = DaysShown(b.shown) + 1 /\ b.shown.longer

Booking(q) ==
    /\ q.op = "book" =>
          /\ q.rentalFee \in Nat
          /\ q.days \in Nat \ {0} /\ Rounded(q)
          /\ q.samePrice = TRUE /\ q.days = DaysShown(q.shown) =>
                q.quote = q.rentalFee + Percentage(q.rentalFee, 5)
    /\ q.op = "priced" =>
          /\ q.rentalFee \in Nat /\ q.serviceFee \in Nat
          /\ q.days \in Nat \ {0} /\ Rounded(q)
          /\ q.asShown = TRUE /\ q.days = DaysShown(q.shown) =>
                q.quote = q.rentalFee + q.serviceFee
    /\ q.op = "charge" =>
          /\ charge # NoCharge
          /\ q.commission \in 0 .. bill.rentalFee

PricingInv ==
    /\ tariff \in [price : Prices, fee : Percents, commission : Percents]
    /\ form = [price |-> form.price, days |-> form.days, longer |-> form.longer]
    /\ form.price \in Nat /\ form.days \in Nat
    /\ form # NoForm => form.days # 0
    /\ bill.rentalFee \in Nat
    /\ bill # NoBill => bill.total = bill.rentalFee + bill.serviceFee /\ Rounded(bill)
    /\ bill # NoBill /\ bill.asShown = TRUE /\ bill.days = DaysShown(bill.shown) =>
          bill.total = bill.quote
    /\ charge # NoCharge => bill # NoBill /\ charge = bill.total
    /\ deal # NoDeal =>
          /\ charge # NoCharge
          /\ deal.contract = [rentalFee |-> bill.rentalFee, total |-> charge]
          /\ deal.commission + deal.net = bill.rentalFee
          /\ deal.net >= 0
    /\ req = [w \in Workers |-> req[w]]
    /\ \A w \in Workers : Booking(req[w])

\* A handler goes on, and the rows stay.
LEMMA PricingApart ==
    ASSUME PricingInv, NEW w \in Workers, NEW q, req' = [req EXCEPT ![w] = q],
           UNCHANGED pricingVars, Booking(q)
    PROVE  PricingInv'
<1>1. /\ req' = [v \in Workers |-> req'[v]]
      /\ \A v \in Workers : Booking(req'[v])
  BY OneMoves DEF PricingInv
<1> QED
  BY <1>1 DEF PricingInv, pricingVars, Booking

LEMMA PricingStepInv == PricingInv /\ [PricingNext]_<<pricingVars, req>> => PricingInv'
<1> SUFFICES ASSUME PricingInv, [PricingNext]_<<pricingVars, req>>
             PROVE  PricingInv'
  OBVIOUS
<1>i. Booking(Idle)
  BY DEF Booking, Idle
<1>1. CASE ChangeTariff
  <2>1. tariff' \in [price : Prices, fee : Percents, commission : Percents]
    BY <1>1 DEF ChangeTariff, PricingInv
  <2> QED
    BY <1>1, <2>1 DEF ChangeTariff, PricingInv, Booking
<1>2. CASE OpenForm
  <2>1. /\ form' = [price |-> form'.price, days |-> form'.days, longer |-> form'.longer]
        /\ form'.price \in Nat /\ form'.days \in Nat \ {0}
    BY <1>2, TariffAssumption DEF OpenForm, PricingInv
  <2> QED
    BY <1>2, <2>1 DEF OpenForm, PricingInv, Booking
<1>3. CASE ChangeDuration
  <2>1. PICK step \in {-1, 1} :
            form' = [form EXCEPT !.days = Clamped(DaysShown(form) + step), !.longer = FALSE]
    BY <1>3 DEF ChangeDuration
  <2>2. Clamped(DaysShown(form) + step) \in Nat \ {0}
    BY TariffAssumption DEF Clamped, DaysShown, PricingInv
  <2>3. /\ form' = [price |-> form'.price, days |-> form'.days, longer |-> form'.longer]
        /\ form'.price \in Nat /\ form'.days \in Nat \ {0}
    BY <2>1, <2>2 DEF PricingInv
  <2> QED
    BY <1>3, <2>3 DEF ChangeDuration, PricingInv, Booking
<1>4. ASSUME NEW w \in Workers, BookRead(w) PROVE PricingInv'
  <2>d. PICK days : days = DaysBilled(form)
    OBVIOUS
  <2>f. PICK fee : fee = tariff.price * days
    OBVIOUS
  <2>q. PICK q : q = [op |-> "book", days |-> days, rentalFee |-> fee,
                      shown |-> form, quote |-> Quote,
                      samePrice |-> tariff.price = form.price]
    OBVIOUS
  <2>1. req' = [req EXCEPT ![w] = q] /\ UNCHANGED pricingVars
    BY <1>4, <2>d, <2>f, <2>q DEF BookRead, Begin
  <2>s. days \in Nat \ {0} /\ Rounded(q)
    <3>1. form # NoForm /\ form.days \in Nat \ {0}
      BY <1>4 DEF BookRead, PricingInv
    <3>2. DaysShown(form) = form.days
      BY <3>1 DEF DaysShown
    <3>3. q.days = days /\ q.shown = form
      BY <2>q
    <3>4. CASE form.longer
      <4>1. days = form.days + 1
        BY <2>d, <3>4 DEF DaysBilled
      <4> QED
        BY <3>1, <3>2, <3>3, <3>4, <4>1 DEF Rounded
    <3>5. CASE ~form.longer
      <4>1. days = form.days
        BY <2>d, <3>5 DEF DaysBilled
      <4> QED
        BY <3>1, <3>2, <3>3, <4>1 DEF Rounded
    <3> QED
      BY <3>4, <3>5
  <2>2. fee \in Nat
    BY <2>f, <2>s, TariffAssumption DEF PricingInv
  <2>3. q.samePrice = TRUE /\ days = DaysShown(form) => Quote = fee + Percentage(fee, 5)
    BY <2>f, <2>q DEF Quote
  <2>4. Booking(q)
    BY <2>q, <2>s, <2>2, <2>3 DEF Booking
  <2> QED
    BY <2>1, <2>4, PricingApart
<1>5. ASSUME NEW w \in Workers, BookPriced(w) PROVE PricingInv'
  <2>f. PICK fee : fee = Percentage(req[w].rentalFee, tariff.fee)
    OBVIOUS
  <2>q. PICK q : q = [op |-> "priced", days |-> req[w].days,
                      rentalFee |-> req[w].rentalFee, serviceFee |-> fee,
                      shown |-> req[w].shown, quote |-> req[w].quote,
                      asShown |-> req[w].samePrice /\ tariff.fee = 5]
    OBVIOUS
  <2>1. req[w].op = "book" /\ req' = [req EXCEPT ![w] = q] /\ UNCHANGED pricingVars
    BY <1>5, <2>f, <2>q DEF BookPriced, Continue
  <2>2. /\ req[w].rentalFee \in Nat
        /\ req[w].days \in Nat \ {0} /\ Rounded(req[w])
        /\ req[w].samePrice = TRUE /\ req[w].days = DaysShown(req[w].shown) =>
              req[w].quote = req[w].rentalFee + Percentage(req[w].rentalFee, 5)
    BY <2>1 DEF PricingInv, Booking
  <2>3. fee \in Nat
    <3>1. tariff.fee \in 0 .. 100
      BY TariffAssumption DEF PricingInv
    <3>2. req[w].rentalFee \in Nat
      BY <2>2
    <3>3. fee \in 0 .. req[w].rentalFee
      BY <2>f, <3>1, <3>2, PartOfAmount
    <3> QED
      BY <3>2, <3>3
  <2>4. q.asShown = TRUE /\ q.days = DaysShown(q.shown) => q.quote = q.rentalFee + fee
    BY <2>f, <2>q, <2>2
  <2>s. q.days \in Nat \ {0} /\ Rounded(q)
    BY <2>q, <2>2 DEF Rounded
  <2>5. Booking(q)
    BY <2>q, <2>s, <2>2, <2>3, <2>4 DEF Booking
  <2> QED
    BY <2>1, <2>5, PricingApart
<1>6. ASSUME NEW w \in Workers, BookCommit(w) PROVE PricingInv'
  <2>1. /\ req[w].op = "priced" /\ bill = NoBill /\ req' = [req EXCEPT ![w] = Idle]
        /\ tariff' = tariff /\ form' = form /\ charge' = charge /\ deal' = deal
        /\ bill' = [days |-> req[w].days,
                    rentalFee |-> req[w].rentalFee, serviceFee |-> req[w].serviceFee,
                    total |-> req[w].rentalFee + req[w].serviceFee,
                    shown |-> req[w].shown, quote |-> req[w].quote,
                    asShown |-> req[w].asShown]
    BY <1>6 DEF BookCommit, Done
  <2>2. /\ req[w].rentalFee \in Nat /\ req[w].serviceFee \in Nat
        /\ Rounded(req[w])
        /\ req[w].asShown = TRUE /\ req[w].days = DaysShown(req[w].shown) =>
              req[w].quote = req[w].rentalFee + req[w].serviceFee
    BY <2>1 DEF PricingInv, Booking
  <2>3. charge = NoCharge /\ deal = NoDeal
    BY <2>1 DEF PricingInv
  <2>4. /\ bill'.rentalFee \in Nat
        /\ bill'.total = bill'.rentalFee + bill'.serviceFee
        /\ Rounded(bill')
        /\ bill'.asShown = TRUE /\ bill'.days = DaysShown(bill'.shown) =>
              bill'.total = bill'.quote
    BY <2>1, <2>2 DEF Rounded
  <2>5. \A v \in Workers : req[v].op # "charge"
    BY <2>3 DEF PricingInv, Booking
  <2>6. /\ req' = [v \in Workers |-> req'[v]] /\ req'[w] = Idle
        /\ \A v \in Workers \ {w} : req'[v] = req[v]
    BY <2>1, OneMoves DEF PricingInv
  <2>7. \A v \in Workers : Booking(req[v])'
    BY <2>5, <2>6 DEF PricingInv, Booking, Idle
  <2> QED
    BY <2>1, <2>3, <2>4, <2>6, <2>7 DEF PricingInv
<1>7. ASSUME NEW w \in Workers, BookRefused(w) \/ ChargeSkip(w) PROVE PricingInv'
  <2>1. req' = [req EXCEPT ![w] = Idle] /\ UNCHANGED pricingVars
    BY <1>7 DEF BookRefused, ChargeSkip, Done
  <2> QED
    BY <1>i, <2>1, PricingApart
<1>8. ASSUME NEW w \in Workers, AskPayment(w) PROVE PricingInv'
  <2>1. /\ bill # NoBill /\ charge = NoCharge /\ charge' = bill.total /\ req' = req
        /\ tariff' = tariff /\ form' = form /\ bill' = bill /\ deal' = deal
    BY <1>8 DEF AskPayment, AmountDue, AtOnce
  <2>2. deal = NoDeal /\ \A v \in Workers : req[v].op # "charge"
    BY <2>1 DEF PricingInv, Booking
  <2> QED
    BY <2>1, <2>2 DEF PricingInv, Booking
<1>9. ASSUME NEW w \in Workers, CommissionRead(w) PROVE PricingInv'
  <2>f. PICK commission : commission = Percentage(bill.rentalFee, tariff.commission)
    OBVIOUS
  <2>q. PICK q : q = [op |-> "charge", commission |-> commission]
    OBVIOUS
  <2>1. charge # NoCharge /\ req' = [req EXCEPT ![w] = q] /\ UNCHANGED pricingVars
    BY <1>9, <2>f, <2>q DEF CommissionRead, Begin
  <2>2. commission \in 0 .. bill.rentalFee
    <3>1. bill.rentalFee \in Nat /\ tariff.commission \in 0 .. 100
      BY TariffAssumption DEF PricingInv
    <3> QED
      BY <2>f, <3>1, PartOfAmount
  <2>3. Booking(q)
    BY <2>q, <2>1, <2>2 DEF Booking
  <2> QED
    BY <2>1, <2>3, PricingApart
<1>10. ASSUME NEW w \in Workers, ChargeCommit(w) PROVE PricingInv'
  <2>1. /\ req[w].op = "charge" /\ charge = bill.total /\ req' = [req EXCEPT ![w] = Idle]
        /\ tariff' = tariff /\ form' = form /\ bill' = bill /\ charge' = charge
        /\ deal'.commission = req[w].commission
        /\ deal'.net = bill.rentalFee - req[w].commission
        /\ deal'.contract = [rentalFee |-> bill.rentalFee, total |-> bill.total]
    BY <1>10 DEF ChargeCommit, Done
  <2>2. charge # NoCharge /\ req[w].commission \in 0 .. bill.rentalFee /\ bill.rentalFee \in Nat
    BY <2>1 DEF PricingInv, Booking
  <2>3. /\ deal'.contract = [rentalFee |-> bill.rentalFee, total |-> charge]
        /\ deal'.commission + deal'.net = bill.rentalFee
        /\ deal'.net >= 0
    BY <2>1, <2>2
  <2>4. /\ req' = [v \in Workers |-> req'[v]]
        /\ \A v \in Workers : Booking(req'[v])
    BY <1>i, <2>1, OneMoves DEF PricingInv
  <2> QED
    BY <2>1, <2>2, <2>3, <2>4 DEF PricingInv, Booking
<1>11. CASE UNCHANGED <<pricingVars, req>>
  BY <1>11 DEF pricingVars, PricingInv, Booking
<1> QED
  BY <1>1, <1>2, <1>3, <1>4, <1>5, <1>6, <1>7, <1>8, <1>9, <1>10, <1>11 DEF PricingNext

\* The row is for the days the screen showed, or for one more when the period
\* was longer than whole days; for the same days, at the price the screen had
\* loaded and a fee of five percent, its total is the quote.  The payment, the
\* contract and the payout are about the row, whatever became of the price and
\* the percentages since (rentals.service.ts computePricing,
\* settleVerifiedPayment).
THEOREM Price == PricingSpec => []OnePrice
<1>1. PricingInit /\ req = [w \in Workers |-> Idle] => PricingInv
  <2> SUFFICES ASSUME PricingInit, req = [w \in Workers |-> Idle]
               PROVE  PricingInv
    OBVIOUS
  <2>1. /\ form = NoForm
        /\ form = [price |-> form.price, days |-> form.days, longer |-> form.longer]
        /\ form.price \in Nat /\ form.days \in Nat
    BY DEF PricingInit, NoForm
  <2>2. \A w \in Workers : Booking(req[w])
    BY DEF Booking, Idle
  <2>3. bill = NoBill /\ bill.rentalFee = 0
    BY DEF PricingInit, NoBill
  <2>4. tariff \in [price : Prices, fee : Percents, commission : Percents]
        /\ charge = NoCharge /\ deal = NoDeal
    BY DEF PricingInit
  <2>5. req = [w \in Workers |-> req[w]]
    OBVIOUS
  <2>6. bill.rentalFee \in Nat
    BY <2>3
  <2> QED
    BY <2>1, <2>2, <2>3, <2>4, <2>5, <2>6 DEF PricingInv
<1>2. PricingInv => OnePrice
  BY DEF PricingInv, OnePrice, Rounded
<1> QED
  BY <1>1, <1>2, PricingStepInv, PTL DEF PricingSpec

----------------------------------------------------------------------------
(* The session.  Whenever no refresh is on its way the pair in memory is   *)
(* the good one, and what a restart would read from the disk is good as    *)
(* well; between the server's answer and the two writes the pair in flight *)
(* is.  What a sign-out leaves undone does not matter.                     *)
SessionInv ==
    /\ store = [access |-> store.access, refresh |-> store.refresh]
    /\ disk = [access |-> disk.access, refresh |-> disk.refresh]
    /\ flow.at = "none" => flow = NoFlow
    /\ flow.at = "granted" =>
          /\ flow = [at |-> "granted", token |-> flow.token, unsaved |-> flow.unsaved]
          /\ flow.unsaved \subseteq {"access", "refresh"}
    /\ ~disturbed /\ good # 0 =>
          /\ flow.at = "none" /\ store.access # 0 => store.refresh = good
          /\ flow.at # "granted" /\ disk.refresh # 0 => disk.refresh = good
          /\ flow.at = "granted" =>
                /\ flow.token = good
                /\ "refresh" \notin flow.unsaved => disk.refresh \in {0, good}

LEMMA SessionStepInv == SessionInv /\ [DeviceNext]_deviceVars => SessionInv'
<1> SUFFICES ASSUME SessionInv, [DeviceNext]_deviceVars
             PROVE  SessionInv'
  OBVIOUS
<1>1. ASSUME NEW c \in Calls, SendCall(c) PROVE SessionInv'
  BY <1>1 DEF SendCall, server, SessionInv
<1>2. ASSUME NEW c \in Calls, Answered(c) PROVE SessionInv'
  BY <1>2 DEF Answered, memory, SessionInv
<1>3. ASSUME NEW c \in Calls, Failed(c) PROVE SessionInv'
  BY <1>3 DEF Failed, server, memory, SessionInv
<1>4. ASSUME NEW c \in Calls, Unauthorized(c) PROVE SessionInv'
  BY <1>4 DEF Unauthorized, server, SessionInv, NoFlow
<1>5. CASE RefreshGranted
  BY <1>5 DEF RefreshGranted, SessionInv
<1>6. CASE ExchangeRefused
  BY <1>6 DEF ExchangeRefused, server, SessionInv
<1>7. CASE RefreshLost
  BY <1>7 DEF RefreshLost, server, SessionInv
<1>8. CASE SaveToken
  <2>1. PICK key \in flow.unsaved :
            /\ disk' = [disk EXCEPT ![key] = flow.token]
            /\ flow' = [flow EXCEPT !.unsaved = @ \ {key}]
    BY <1>8 DEF SaveToken
  <2>2. /\ flow.at = "granted" /\ store' = store /\ good' = good /\ disturbed' = disturbed
    BY <1>8 DEF SaveToken, server
  <2>f. flow' = [at |-> "granted", token |-> flow.token, unsaved |-> flow.unsaved \ {key}]
    BY <2>1, <2>2 DEF SessionInv
  <2>3. CASE key = "access"
    <3>1. disk' = [access |-> flow.token, refresh |-> disk.refresh]
      BY <2>1, <2>3 DEF SessionInv
    <3> QED
      BY <2>2, <2>f, <2>3, <3>1 DEF SessionInv
  <2>4. CASE key = "refresh"
    <3>1. disk' = [access |-> disk.access, refresh |-> flow.token]
      BY <2>1, <2>4 DEF SessionInv
    <3> QED
      BY <2>2, <2>f, <2>4, <3>1 DEF SessionInv
  <2> QED
    BY <2>1, <2>2, <2>3, <2>4 DEF SessionInv
<1>9. CASE SaveFails
  BY <1>9 DEF SaveFails, server, SessionInv, NoTokens
<1>10. CASE RefreshSucceeds
  BY <1>10 DEF RefreshSucceeds, server, SessionInv, NoFlow
<1>11. CASE RefreshFails
  BY <1>11 DEF RefreshFails, server, SessionInv
<1>12. CASE RefreshCleared
  BY <1>12 DEF RefreshCleared, server, SessionInv, NoTokens, NoFlow
<1>13. CASE SignIn
  <2>1. /\ store' = [access |-> pairs', refresh |-> pairs'] /\ disk' = store'
        /\ good' = pairs' /\ flow' = flow /\ disturbed' = (flow # NoFlow)
    BY <1>13 DEF SignIn
  <2>2. CASE flow = NoFlow
    BY <2>1, <2>2 DEF SessionInv, NoFlow
  <2>3. CASE flow # NoFlow
    BY <2>1, <2>3 DEF SessionInv
  <2> QED
    BY <2>2, <2>3
<1>14. CASE SignOutDisk
  BY <1>14 DEF SignOutDisk, server, SessionInv, NoTokens
<1>15. CASE SignOutStore
  BY <1>15 DEF SignOutStore, server, SessionInv, NoTokens
<1>16. CASE AppRestarts
  BY <1>16 DEF AppRestarts, server, SessionInv, NoTokens, NoFlow
<1>17. CASE AccessExpires \/ RevokedElsewhere
  BY <1>17 DEF AccessExpires, RevokedElsewhere, memory, SessionInv
<1>18. CASE UNCHANGED deviceVars
  BY <1>18 DEF deviceVars, SessionInv
<1> QED
  BY <1>1, <1>2, <1>3, <1>4, <1>5, <1>6, <1>7, <1>8, <1>9, <1>10, <1>11, <1>12, <1>13,
     <1>14, <1>15, <1>16, <1>17, <1>18 DEF DeviceNext, DeviceProgress

\* However many calls fail together, and whenever the app is closed while no
\* refresh is out and the refresh token of the last one is on disk, a device
\* at rest holds the good token, as long as no answer was lost and no sign-in
\* overtook a refresh (client.ts, the response interceptor; authStore.ts,
\* checkSession).
THEOREM Session == DeviceSpec => []SessionKept
<1>1. DeviceInit => SessionInv
  BY DEF DeviceInit, SessionInv, NoTokens, NoFlow
<1>2. SessionInv => SessionKept
  BY DEF SessionInv, SessionKept, NoFlow
<1> QED
  BY <1>1, <1>2, SessionStepInv, PTL DEF DeviceSpec

----------------------------------------------------------------------------
(* The cache.  A listing that was removed and synchronized stays archived, *)
(* and no answer on its way to the phone shows it; from the moment the     *)
(* fetches are given up to the end of the synchronization that holds for   *)
(* the listing about to be dropped as well.                                *)
Hidden(k, row) == row \in IF k = "detail" THEN {NoRow, "ARCHIVED"} ELSE {NoRow}

NotFetched(a) == \A k \in Cached :
    fetching[k].state = "answered" => Hidden(k, fetching[k].rows[a])

Removing ==
    /\ task.kind = "remove" /\ task.phase = "sent" =>
          \/ listing[task.a] = "ARCHIVED"
          \/ req[task.w].op = "remove" /\ req[task.w].a = task.a
    /\ task.kind = "remove" /\ task.phase # "sent" => listing[task.a] = "ARCHIVED"
    /\ task.phase = "cancelled" => task.kind = "remove" /\ NotFetched(task.a)

CacheInv ==
    /\ listing = [a \in Assets |-> listing[a]]
    /\ req = [w \in Workers |-> req[w]]
    /\ onPhone = [k \in Cached |-> onPhone[k]]
    /\ \A k \in Cached : DOMAIN onPhone[k] = Assets
    /\ fetching = [k \in Cached |-> fetching[k]]
    /\ \A k \in Cached : fetching[k].state = "answered" => DOMAIN fetching[k].rows = Assets
    /\ gone \subseteq Assets
    /\ \A a \in gone : listing[a] = "ARCHIVED" /\ NotFetched(a)
    /\ RemovedRowGone
    /\ task = NoTask \/ task \in [kind : {"remove", "removeMine", "moderate"}, a : Assets,
                                  w : Workers, phase : {"sent", "answered", "cancelled"}]
    /\ task # NoTask => Removing

\* The listings may be archived meanwhile; what is hidden stays so.
LEMMA ServiceApart ==
    ASSUME CacheInv, UNCHANGED cacheVars,
           listing' = [a \in Assets |-> listing'[a]],
           req' = [w \in Workers |-> req'[w]],
           \A a \in Assets : listing[a] = "ARCHIVED" => listing'[a] = "ARCHIVED",
           \A w \in Workers : req[w].op = "remove" =>
              \/ req'[w] = req[w]
              \/ req[w].a \in Assets => listing'[req[w].a] = "ARCHIVED"
    PROVE  CacheInv'
<1>1. \A a : NotFetched(a)' <=> NotFetched(a)
  BY DEF NotFetched, cacheVars
<1>2. ASSUME task # NoTask PROVE Removing'
  <2>1. task.a \in Assets /\ task.w \in Workers /\ Removing
    BY <1>2 DEF CacheInv
  <2> QED
    BY <1>1, <2>1 DEF Removing, cacheVars
<1>3. /\ onPhone' = onPhone /\ fetching' = fetching /\ gone' = gone /\ task' = task
  BY DEF cacheVars
<1>4. RemovedRowGone'
  BY <1>3 DEF CacheInv, RemovedRowGone
<1>5. \A a \in gone : listing'[a] = "ARCHIVED" /\ NotFetched(a)'
  BY <1>1 DEF CacheInv
<1>6. onPhone' = [k \in Cached |-> onPhone'[k]] /\ \A k \in Cached : DOMAIN onPhone'[k] = Assets
  BY <1>3 DEF CacheInv
<1>7. /\ fetching' = [k \in Cached |-> fetching'[k]] /\ gone' \subseteq Assets
      /\ \A k \in Cached : fetching'[k].state = "answered" => DOMAIN fetching'[k].rows = Assets
  BY <1>3 DEF CacheInv
<1> QED
  BY <1>2, <1>3, <1>4, <1>5, <1>6, <1>7 DEF CacheInv

\* Fetches begin, are answered and are given up.
LEMMA FetchesMove ==
    ASSUME CacheInv, UNCHANGED <<onPhone, task, gone, listingVars, req>>,
           fetching' = [k \in Cached |-> fetching'[k]],
           \A k \in Cached : fetching'[k].state = "answered" =>
              \/ fetching'[k] = fetching[k]
              \/ fetching'[k].rows = Answer(k)
    PROVE  CacheInv'
<1>1. \A a \in Assets : listing[a] = "ARCHIVED" /\ NotFetched(a) => NotFetched(a)'
  <2> SUFFICES ASSUME NEW a \in Assets, listing[a] = "ARCHIVED", NotFetched(a),
                      NEW k \in Cached, fetching'[k].state = "answered"
               PROVE  Hidden(k, fetching'[k].rows[a])
    BY DEF NotFetched
  <2>1. CASE fetching'[k] = fetching[k]
    BY <2>1 DEF NotFetched
  <2>2. CASE fetching'[k].rows = Answer(k)
    <3>1. Hidden(k, Answer(k)[a])
      BY DEF Answer, Hidden, Cached
    <3> QED
      BY <2>2, <3>1
  <2> QED
    BY <2>1, <2>2
<1>2. \A a \in gone : NotFetched(a)'
  BY <1>1 DEF CacheInv
<1>3. ASSUME task # NoTask PROVE Removing'
  <2>1. task.a \in Assets /\ Removing
    BY <1>3 DEF CacheInv
  <2>2. NotFetched(task.a) /\ listing[task.a] = "ARCHIVED" => NotFetched(task.a)'
    BY <1>1, <2>1
  <2>3. task.phase = "cancelled" => listing[task.a] = "ARCHIVED"
    BY <2>1 DEF Removing
  <2> QED
    BY <2>1, <2>2, <2>3 DEF Removing, listingVars, NotFetched
<1>4. /\ onPhone' = onPhone /\ gone' = gone /\ task' = task /\ listing' = listing /\ req' = req
  BY DEF listingVars
<1>5. RemovedRowGone'
  BY <1>4 DEF CacheInv, RemovedRowGone
<1>6. onPhone' = [k \in Cached |-> onPhone'[k]] /\ \A k \in Cached : DOMAIN onPhone'[k] = Assets
  BY <1>4 DEF CacheInv
<1>7. /\ listing' = [a \in Assets |-> listing'[a]] /\ req' = [w \in Workers |-> req'[w]]
      /\ gone' \subseteq Assets /\ \A a \in gone' : listing'[a] = "ARCHIVED"
  BY <1>4 DEF CacheInv
<1>8. \A k \in Cached : fetching'[k].state = "answered" => DOMAIN fetching'[k].rows = Assets
  BY DEF CacheInv, Answer
<1> QED
  BY <1>2, <1>3, <1>4, <1>5, <1>6, <1>7, <1>8 DEF CacheInv

LEMMA OneFetchMoves ==
    ASSUME CacheInv, UNCHANGED <<onPhone, task, gone, listingVars, req>>,
           NEW k \in Cached, NEW f, fetching' = [fetching EXCEPT ![k] = f],
           f.state = "answered" => f = fetching[k] \/ f.rows = Answer(k)
    PROVE  CacheInv'
<1>1. /\ fetching' = [c \in Cached |-> fetching'[c]] /\ fetching'[k] = f
      /\ \A c \in Cached \ {k} : fetching'[c] = fetching[c]
  BY DEF CacheInv
<1>2. \A c \in Cached : fetching'[c].state = "answered" =>
         fetching'[c] = fetching[c] \/ fetching'[c].rows = Answer(c)
  BY <1>1
<1> QED
  BY <1>1, <1>2, FetchesMove

\* A query's own steps: it is opened, left, fetched, answered and delivered.
LEMMA QueryStep ==
    ASSUME CacheInv, NEW k \in Cached,
           Open(k) \/ Leave(k) \/ Refetch(k) \/ FetchAnswered(k) \/ FetchDelivered(k)
    PROVE  CacheInv'
<1>a. PICK asked : asked = [state |-> "asked"]
  OBVIOUS
<1>1. CASE Leave(k) \/ (Open(k) /\ fetching' = fetching)
  <2>1. /\ UNCHANGED <<onPhone, task, gone, listingVars, req>> /\ fetching' = fetching
    BY <1>1 DEF Leave, Open
  <2>2. /\ fetching' = [c \in Cached |-> fetching'[c]]
        /\ \A c \in Cached : fetching'[c].state = "answered" =>
              fetching'[c] = fetching[c] \/ fetching'[c].rows = Answer(c)
    BY <2>1 DEF CacheInv
  <2> QED
    BY <2>1, <2>2, FetchesMove
<1>2. CASE Open(k) /\ fetching' # fetching
  <2>f. PICK f : f = IF fetching[k] = NoFetch THEN asked ELSE fetching[k]
    OBVIOUS
  <2>1. /\ UNCHANGED <<onPhone, task, gone, listingVars, req>>
        /\ fetching' = [fetching EXCEPT ![k] = f]
    BY <1>a, <1>2, <2>f DEF Open
  <2>2. f.state = "answered" => f = fetching[k]
    BY <1>a, <2>f
  <2> QED
    BY <2>1, <2>2, OneFetchMoves
<1>3. CASE Refetch(k)
  <2>1. /\ UNCHANGED <<onPhone, task, gone, listingVars, req>>
        /\ fetching' = [fetching EXCEPT ![k] = asked]
    BY <1>a, <1>3 DEF Refetch
  <2>2. asked.state # "answered"
    BY <1>a
  <2> QED
    BY <2>1, <2>2, OneFetchMoves
<1>4. CASE FetchAnswered(k)
  <2>f. PICK f : f = [state |-> "answered", rows |-> Answer(k)]
    OBVIOUS
  <2>1. /\ UNCHANGED <<onPhone, task, gone, listingVars, req>>
        /\ fetching' = [fetching EXCEPT ![k] = f]
    BY <1>4, <2>f DEF FetchAnswered
  <2>2. f.rows = Answer(k)
    BY <2>f
  <2> QED
    BY <2>1, <2>2, OneFetchMoves
<1>5. CASE FetchDelivered(k)
  <2>1. /\ fetching[k].state = "answered"
        /\ onPhone' = [onPhone EXCEPT ![k] = fetching[k].rows]
        /\ fetching' = [fetching EXCEPT ![k] = NoFetch]
        /\ task' = task /\ gone' = gone /\ listing' = listing /\ req' = req
    BY <1>5 DEF FetchDelivered, listingVars
  <2>2. /\ fetching' = [c \in Cached |-> fetching'[c]]
        /\ fetching'[k].state # "answered"
        /\ \A c \in Cached \ {k} : fetching'[c] = fetching[c]
    BY <2>1 DEF CacheInv, NoFetch
  <2>3. \A a : NotFetched(a) => NotFetched(a)'
    BY <2>2 DEF NotFetched
  <2>4. /\ onPhone'[k] = fetching[k].rows
        /\ \A c \in Cached \ {k} : onPhone'[c] = onPhone[c]
    BY <2>1 DEF CacheInv
  <2>5. /\ onPhone' = [c \in Cached |-> onPhone'[c]]
        /\ \A c \in Cached : DOMAIN onPhone'[c] = Assets
    BY <2>1, <2>4 DEF CacheInv
  <2>6. RemovedRowGone'
    BY <2>1, <2>4 DEF CacheInv, RemovedRowGone, NotFetched, Hidden
  <2>7. task # NoTask => Removing'
    BY <2>1, <2>3 DEF CacheInv, Removing
  <2> QED
    BY <2>1, <2>2, <2>3, <2>5, <2>6, <2>7 DEF CacheInv
<1> QED
  BY <1>1, <1>2, <1>3, <1>4, <1>5

LEMMA CacheStepInv == CacheInv /\ [CacheNext]_<<listingVars, cacheVars, req>> => CacheInv'
<1> SUFFICES ASSUME CacheInv, [CacheNext]_<<listingVars, cacheVars, req>>
             PROVE  CacheInv'
  OBVIOUS
<1>1. ASSUME NEW w \in Workers, NEW a \in Assets, PressRemove(w, a) PROVE CacheInv'
  <2>q. PICK q : q = [op |-> "remove", a |-> a]
    OBVIOUS
  <2>1. /\ task = NoTask /\ listing' = listing
        /\ onPhone' = onPhone /\ fetching' = fetching /\ gone' = gone
    BY <1>1 DEF PressRemove, RemoveRead, listingVars
  <2>2. \/ req[w] = Idle /\ req' = [req EXCEPT ![w] = q]
        \/ listing[a] = "ARCHIVED" /\ req' = req
    BY <1>1, <2>q DEF PressRemove, RemoveRead, Begin, AtOnce
  <2>3. PICK kind \in {"remove", "removeMine"} :
            task' = [kind |-> kind, a |-> a, w |-> w, phase |-> "sent"]
    BY <1>1 DEF PressRemove
  <2>4. /\ req' = [v \in Workers |-> req'[v]]
        /\ listing[a] = "ARCHIVED" \/ (req'[w].op = "remove" /\ req'[w].a = a)
    BY <2>q, <2>2, OneMoves DEF CacheInv
  <2>5. /\ task' # NoTask
        /\ task' \in [kind : {"remove", "removeMine", "moderate"}, a : Assets,
                      w : Workers, phase : {"sent", "answered", "cancelled"}]
        /\ task'.phase = "sent" /\ task'.a = a /\ task'.w = w
    BY <2>3 DEF NoTask
  <2>6. Removing'
    BY <2>1, <2>4, <2>5 DEF Removing
  <2>7. \A b : NotFetched(b)' <=> NotFetched(b)
    BY <2>1 DEF NotFetched
  <2> QED
    BY <2>1, <2>4, <2>5, <2>6, <2>7 DEF CacheInv, RemovedRowGone
<1>2. ASSUME NEW w \in Workers, NEW a \in Assets, PressVerdict(w, a) PROVE CacheInv'
  <2>1. /\ task = NoTask /\ listing' = listing
        /\ onPhone' = onPhone /\ fetching' = fetching /\ gone' = gone
        /\ task' = [kind |-> "moderate", a |-> a, w |-> w, phase |-> "sent"]
    BY <1>2 DEF PressVerdict, ModerateRead, listingVars
  <2>2. req' = [v \in Workers |-> req'[v]]
    BY <1>2 DEF PressVerdict, ModerateRead, Begin, CacheInv
  <2>3. /\ task' \in [kind : {"remove", "removeMine", "moderate"}, a : Assets,
                      w : Workers, phase : {"sent", "answered", "cancelled"}]
        /\ Removing'
    BY <2>1 DEF Removing
  <2>4. \A b : NotFetched(b)' <=> NotFetched(b)
    BY <2>1 DEF NotFetched
  <2> QED
    BY <2>1, <2>2, <2>3, <2>4 DEF CacheInv, RemovedRowGone
<1>3. ASSUME NEW w \in Workers, RemoveCommit(w) \/ ModerateCommit(w) \/ ListingGone(w),
             UNCHANGED cacheVars
      PROVE  CacheInv'
  <2>1. req' = [req EXCEPT ![w] = Idle]
    BY <1>3 DEF RemoveCommit, ModerateCommit, ListingGone, Done
  <2>2. /\ req' = [v \in Workers |-> req'[v]]
        /\ \A v \in Workers \ {w} : req'[v] = req[v]
    BY <2>1, OneMoves DEF CacheInv
  <2>3. CASE RemoveCommit(w)
    <3>1. listing' = [listing EXCEPT ![req[w].a] = "ARCHIVED"]
      BY <2>3 DEF RemoveCommit, SetListing
    <3>2. /\ listing' = [a \in Assets |-> listing'[a]]
          /\ \A a \in Assets : listing[a] = "ARCHIVED" => listing'[a] = "ARCHIVED"
          /\ req[w].a \in Assets => listing'[req[w].a] = "ARCHIVED"
      BY <3>1 DEF CacheInv
    <3>3. \A v \in Workers : req[v].op = "remove" =>
              \/ req'[v] = req[v]
              \/ req[v].a \in Assets => listing'[req[v].a] = "ARCHIVED"
      BY <2>2, <3>2
    <3> QED
      BY <1>3, <2>2, <3>2, <3>3, ServiceApart
  <2>4. CASE ModerateCommit(w) \/ ListingGone(w)
    <3>1. /\ listing' = [a \in Assets |-> listing'[a]]
          /\ \A a \in Assets : listing[a] = "ARCHIVED" => listing'[a] = "ARCHIVED"
      <4>1. CASE ModerateCommit(w)
        BY <4>1 DEF ModerateCommit, SetListing, CacheInv
      <4>2. CASE ListingGone(w)
        BY <4>2 DEF ListingGone, listingVars, CacheInv
      <4> QED
        BY <2>4, <4>1, <4>2
    <3>2. req[w].op # "remove"
      BY <2>4 DEF ModerateCommit, ListingGone
    <3>3. \A v \in Workers : req[v].op = "remove" =>
              \/ req'[v] = req[v]
              \/ req[v].a \in Assets => listing'[req[v].a] = "ARCHIVED"
      BY <2>2, <3>2
    <3> QED
      BY <1>3, <2>2, <3>1, <3>3, ServiceApart
  <2> QED
    BY <1>3, <2>3, <2>4
<1>4. ASSUME NEW a \in Assets, RemovedElsewhere(a) PROVE CacheInv'
  <2>1. /\ listing' = [listing EXCEPT ![a] = "ARCHIVED"] /\ req' = req /\ UNCHANGED cacheVars
    BY <1>4 DEF RemovedElsewhere, SetListing
  <2>2. /\ listing' = [b \in Assets |-> listing'[b]]
        /\ req' = [v \in Workers |-> req'[v]]
        /\ \A b \in Assets : listing[b] = "ARCHIVED" => listing'[b] = "ARCHIVED"
        /\ \A v \in Workers : req[v].op = "remove" =>
              \/ req'[v] = req[v]
              \/ req[v].a \in Assets => listing'[req[v].a] = "ARCHIVED"
    BY <2>1 DEF CacheInv
  <2> QED
    BY <2>1, <2>2, ServiceApart
<1>5. CASE TaskAnswered
  <2>1. /\ task # NoTask /\ task.phase = "sent" /\ req[task.w] = Idle
        /\ task' = [task EXCEPT !.phase = "answered"] \/ task' = NoTask
        /\ listing' = listing /\ req' = req
        /\ onPhone' = onPhone /\ fetching' = fetching /\ gone' = gone
    BY <1>5 DEF TaskAnswered, listingVars
  <2>2. task.kind = "remove" => listing[task.a] = "ARCHIVED"
    BY <2>1 DEF CacheInv, Removing, Idle
  <2>3. \A b : NotFetched(b)' <=> NotFetched(b)
    BY <2>1 DEF NotFetched
  <2>4. CASE task' = NoTask
    BY <2>1, <2>3, <2>4 DEF CacheInv, RemovedRowGone
  <2>5. CASE task' = [task EXCEPT !.phase = "answered"]
    <3>1. /\ task' \in [kind : {"remove", "removeMine", "moderate"}, a : Assets,
                        w : Workers, phase : {"sent", "answered", "cancelled"}]
          /\ task'.kind = task.kind /\ task'.a = task.a /\ task'.phase = "answered"
      BY <2>1, <2>5 DEF CacheInv
    <3>2. Removing'
      BY <2>1, <2>2, <3>1 DEF Removing
    <3> QED
      BY <2>1, <2>3, <3>1, <3>2 DEF CacheInv, RemovedRowGone
  <2> QED
    BY <2>1, <2>4, <2>5
<1>6. CASE CancelFetches
  <2>1. /\ task # NoTask /\ task.phase = "answered" /\ task.kind = "remove"
        /\ fetching' = [k \in Cached |-> NoFetch]
        /\ task' = [task EXCEPT !.phase = "cancelled"]
        /\ listing' = listing /\ req' = req /\ onPhone' = onPhone /\ gone' = gone
    BY <1>6 DEF CancelFetches, listingVars
  <2>2. /\ fetching' = [k \in Cached |-> fetching'[k]]
        /\ \A k \in Cached : fetching'[k].state # "answered"
    BY <2>1 DEF NoFetch
  <2>3. \A b : NotFetched(b)'
    BY <2>2 DEF NotFetched
  <2>4. /\ task' \in [kind : {"remove", "removeMine", "moderate"}, a : Assets,
                      w : Workers, phase : {"sent", "answered", "cancelled"}]
        /\ task'.kind = "remove" /\ task'.a = task.a /\ task'.phase = "cancelled"
    BY <2>1 DEF CacheInv
  <2>5. listing[task.a] = "ARCHIVED"
    BY <2>1 DEF CacheInv, Removing
  <2>6. Removing'
    BY <2>1, <2>3, <2>4, <2>5 DEF Removing
  <2> QED
    BY <2>1, <2>2, <2>3, <2>4, <2>6 DEF CacheInv, RemovedRowGone
<1>7. CASE DropRow
  <2>a. PICK a : a = task.a
    OBVIOUS
  <2>1. /\ task # NoTask /\ task.phase = "cancelled" /\ task' = NoTask
        /\ onPhone' = [k \in Cached |-> [onPhone[k] EXCEPT ![a] =
                          IF k = "detail" /\ @ # NoRow THEN "ARCHIVED" ELSE NoRow]]
        /\ fetching' = [k \in Cached |-> Invalidated(k)]
        /\ gone' = gone \cup {a} /\ listing' = listing /\ req' = req
    BY <1>7, <2>a DEF DropRow, listingVars
  <2>2. a \in Assets /\ listing[a] = "ARCHIVED" /\ NotFetched(a)
    BY <2>a, <2>1 DEF CacheInv, Removing
  <2>3. /\ fetching' = [k \in Cached |-> fetching'[k]]
        /\ \A k \in Cached : fetching'[k].state = "answered" => fetching'[k] = fetching[k]
    BY <2>1 DEF Invalidated
  <2>4. \A b : NotFetched(b) => NotFetched(b)'
    BY <2>3 DEF NotFetched
  <2>5. /\ onPhone' = [k \in Cached |-> onPhone'[k]]
        /\ \A k \in Cached : DOMAIN onPhone'[k] = Assets
        /\ \A k \in Cached : Hidden(k, onPhone'[k][a])
        /\ \A k \in Cached, b \in Assets \ {a} : onPhone'[k][b] = onPhone[k][b]
    BY <2>1, <2>2 DEF CacheInv, Hidden
  <2>6. RemovedRowGone'
    BY <2>1, <2>5 DEF CacheInv, RemovedRowGone, Hidden
  <2>7. /\ gone' \subseteq Assets
        /\ \A b \in gone' : listing'[b] = "ARCHIVED" /\ NotFetched(b)'
    BY <2>1, <2>2, <2>4 DEF CacheInv
  <2>8. \A k \in Cached : fetching'[k].state = "answered" => DOMAIN fetching'[k].rows = Assets
    BY <2>3 DEF CacheInv
  <2>9. /\ listing' = [b \in Assets |-> listing'[b]]
        /\ req' = [w \in Workers |-> req'[w]]
    BY <2>1 DEF CacheInv
  <2> QED
    BY <2>1, <2>3, <2>5, <2>6, <2>7, <2>8, <2>9 DEF CacheInv
<1>8. CASE RefreshLists
  <2>1. /\ task' = NoTask
        /\ listing' = listing /\ req' = req /\ onPhone' = onPhone /\ gone' = gone
        /\ fetching' = [k \in Cached |-> fetching'[k]]
        /\ \A k \in Cached : fetching'[k].state = "answered" => fetching'[k] = fetching[k]
    BY <1>8 DEF RefreshLists, Invalidated, listingVars
  <2>2. \A b : NotFetched(b) => NotFetched(b)'
    BY <2>1 DEF NotFetched
  <2> QED
    BY <2>1, <2>2 DEF CacheInv, RemovedRowGone
<1>9. CASE UNCHANGED <<listingVars, cacheVars, req>>
  <2>1. /\ UNCHANGED <<onPhone, task, gone, listingVars, req>> /\ fetching' = fetching
    BY <1>9 DEF cacheVars
  <2>2. /\ fetching' = [c \in Cached |-> fetching'[c]]
        /\ \A c \in Cached : fetching'[c].state = "answered" =>
              fetching'[c] = fetching[c] \/ fetching'[c].rows = Answer(c)
    BY <2>1 DEF CacheInv
  <2> QED
    BY <2>1, <2>2, FetchesMove
<1> QED
  BY <1>1, <1>2, <1>3, <1>4, <1>5, <1>6, <1>7, <1>8, <1>9, QueryStep DEF CacheNext

\* No fetch begun, answered or left behind before the removal brings the
\* listing back to a screen (utils/assetCache.ts synchronizeRemovedAsset).
THEOREM Dropped == CacheSpec => []RemovedRowGone
<1>1. ASSUME listing \in [Assets -> AssetStatus \cup {NoRow}], CacheInit,
             req = [w \in Workers |-> Idle]
      PROVE  CacheInv
  <2>1. \A k \in Cached : fetching[k].state # "answered"
    BY <1>1 DEF CacheInit, NoFetch
  <2> QED
    BY <1>1, <2>1 DEF CacheInit, CacheInv, RemovedRowGone
<1>2. CacheInv => RemovedRowGone
  BY DEF CacheInv
<1> QED
  BY <1>1, <1>2, CacheStepInv, PTL DEF CacheSpec

----------------------------------------------------------------------------
(* Search and booking.  Each service has its own filter over windows and   *)
(* rentals; they agree on the windows, and on every rental both look at.   *)
LEMMA SameWindows ==
    ASSUME NEW windows, NEW dates
    PROVE  OpenFor(windows, dates) <=>
              /\ ~\E v \in windows :
                    v.kind = "BLOCKED" /\ v.from < dates.to /\ v.to > dates.from
              /\ (\E v \in windows : v.kind = "AVAILABLE") =>
                    \E v \in windows :
                       v.kind = "AVAILABLE" /\ v.from <= dates.from /\ v.to >= dates.to
<1>1. (\A v \in Of(windows, "BLOCKED") : ~Overlaps(v, dates)) <=>
         ~\E v \in windows : v.kind = "BLOCKED" /\ v.from < dates.to /\ v.to > dates.from
  BY DEF Of, Overlaps
<1>2. Of(windows, "AVAILABLE") = {} <=> ~\E v \in windows : v.kind = "AVAILABLE"
  BY DEF Of
<1>3. (\E v \in Of(windows, "AVAILABLE") : Covers(v, dates)) <=>
         \E v \in windows : v.kind = "AVAILABLE" /\ v.from <= dates.from /\ v.to >= dates.to
  BY DEF Of, Covers
<1> QED
  BY <1>1, <1>2, <1>3 DEF OpenFor

\* What a visitor finds for some dates could be booked for them, but for the
\* rentals that await payment or signatures; and what could be booked is found
\* (assets.service.ts buildAvailabilityDateRangeFilter, rentals.service.ts
\* ensureWithinAvailability).
THEOREM Bookability == SearchSpec => []FoundIsBookable
<1>1. FoundIsBookable
  <2> SUFFICES ASSUME query.dates # NoDates, ~query.staff,
                      NEW i \in Items, catalog[i].status = "ACTIVE"
               PROVE  /\ Bookable(i, query.dates) => Matches(i, query)
                      /\ Matches(i, query) /\ ~Bookable(i, query.dates) =>
                            \E r \in catalog[i].rentals : r.kind \in Refusing \ Hiding
    BY DEF FoundIsBookable
  <2>1. Matches(i, query) <=> /\ FreeFor(catalog[i].rentals, query.dates)
                              /\ OpenFor(catalog[i].windows, query.dates)
    BY DEF Matches, Statuses
  <2>2. Bookable(i, query.dates) <=>
           /\ \A r \in catalog[i].rentals : r.kind \in Refusing => ~Overlaps(r, query.dates)
           /\ OpenFor(catalog[i].windows, query.dates)
    BY SameWindows DEF Bookable, Overlaps
  <2>3. Hiding \subseteq Refusing
    BY DEF Refusing
  <2> QED
    BY <2>1, <2>2, <2>3 DEF FreeFor
<1> QED
  BY <1>1, PTL

----------------------------------------------------------------------------
(* Pages.  The order is strict and total, so the places of the listings    *)
(* are the numbers from nought, each taken once: the answer is a sequence  *)
(* without repetition, and the pages are its beginning.                    *)

\* What an order compares is a number.
LEMMA Ranked ==
    ASSUME catalog \in [Items -> Profiles], NEW i \in Items, NEW sort
    PROVE  Rank(catalog[i], sort) \in Int
<1>1. /\ catalog[i].price \in Int /\ catalog[i].rating \in Int
      /\ catalog[i].rented \in Int /\ catalog[i].km \in Int
  BY SearchAssumption
<1>2. Farther(catalog[i]) \in Int
  BY <1>1 DEF Farther
<1> QED
  BY <1>1, <1>2 DEF Rank

\* The order is total and strict: age decides between equals.
LEMMA Ordered ==
    ASSUME catalog \in [Items -> Profiles], NEW q,
           NEW i \in Items, NEW j \in Items, NEW k \in Items
    PROVE  /\ ~Before(q, i, i)
           /\ i # j => Before(q, i, j) \/ Before(q, j, i)
           /\ Before(q, i, j) /\ Before(q, j, k) => Before(q, i, k)
<1>1. /\ Rank(catalog[i], q.sort) \in Int
      /\ Rank(catalog[j], q.sort) \in Int
      /\ Rank(catalog[k], q.sort) \in Int
  BY Ranked
<1>2. i \in Nat /\ j \in Nat /\ k \in Nat
  BY SearchAssumption
<1> QED
  BY <1>1, <1>2 DEF Before

LEMMA Listings == ASSUME NEW q PROVE Listing(q) \subseteq Items
  BY DEF Listing, Candidates

\* The place of a listing.  Whoever stands later has more before it, so that
\* no two share a place and every place is taken.
LEMMA Places ==
    ASSUME catalog \in [Items -> Profiles], NEW q
    PROVE  LET size == Cardinality(Listing(q))
           IN  /\ size \in Nat
               /\ \A i \in Listing(q) : Cardinality(Ahead(q, i)) \in 0 .. size - 1
               /\ \A i, j \in Listing(q) :
                     Before(q, i, j) => Cardinality(Ahead(q, i)) < Cardinality(Ahead(q, j))
               /\ \A n \in 1 .. size : \E i \in Listing(q) : Cardinality(Ahead(q, i)) = n - 1
<1> DEFINE S == Listing(q)
           size == Cardinality(S)
           place == [i \in S |-> Cardinality(Ahead(q, i))]
<1>1. IsFiniteSet(S) /\ size \in Nat
  BY Listings, FS_Subset, FS_CardinalityType, SearchAssumption
<1>2. ASSUME NEW i \in S
      PROVE  IsFiniteSet(Ahead(q, i)) /\ Cardinality(Ahead(q, i)) \in 0 .. size - 1
  <2>1. Ahead(q, i) \in SUBSET S
    BY DEF Ahead
  <2>2. i \notin Ahead(q, i)
    BY Ordered, Listings DEF Ahead
  <2>3. /\ IsFiniteSet(Ahead(q, i)) /\ Cardinality(Ahead(q, i)) <= size
        /\ size = Cardinality(Ahead(q, i)) => S = Ahead(q, i)
    BY <1>1, <2>1, FS_Subset
  <2>4. Cardinality(Ahead(q, i)) \in Nat
    BY <2>3, FS_CardinalityType
  <2> QED
    BY <1>1, <2>2, <2>3, <2>4
<1>3. ASSUME NEW i \in S, NEW j \in S, Before(q, i, j)
      PROVE  Cardinality(Ahead(q, i)) < Cardinality(Ahead(q, j))
  <2>1. Ahead(q, i) \in SUBSET Ahead(q, j)
    <3> SUFFICES ASSUME NEW k \in S, Before(q, k, i) PROVE Before(q, k, j)
      BY DEF Ahead
    <3> QED
      BY <1>3, Ordered, Listings
  <2>2. i \in Ahead(q, j) /\ i \notin Ahead(q, i)
    BY <1>3, Ordered, Listings DEF Ahead
  <2>3. /\ Cardinality(Ahead(q, i)) <= Cardinality(Ahead(q, j))
        /\ Cardinality(Ahead(q, j)) = Cardinality(Ahead(q, i)) => Ahead(q, j) = Ahead(q, i)
    BY <1>2, <2>1, FS_Subset
  <2>4. Cardinality(Ahead(q, i)) \in Int /\ Cardinality(Ahead(q, j)) \in Int
    BY <1>2
  <2> QED
    BY <2>2, <2>3, <2>4
<1>4. place \in Injection(S, 0 .. size - 1)
  <2>1. place \in [S -> 0 .. size - 1]
    BY <1>2
  <2>2. \A i, j \in S : place[i] = place[j] => i = j
    <3> SUFFICES ASSUME NEW i \in S, NEW j \in S, i # j PROVE place[i] # place[j]
      OBVIOUS
    <3>1. Before(q, i, j) \/ Before(q, j, i)
      BY Ordered, Listings
    <3>2. place[i] \in Int /\ place[j] \in Int
      BY <1>2
    <3> QED
      BY <1>3, <3>1, <3>2
  <2> QED
    BY <2>1, <2>2 DEF Injection, IsInjective
<1>5. IsFiniteSet(0 .. size - 1) /\ Cardinality(0 .. size - 1) = size
  <2>1. size - 1 \in Int
    BY <1>1
  <2>2. /\ IsFiniteSet(0 .. size - 1)
        /\ Cardinality(0 .. size - 1) = IF 0 > size - 1 THEN 0 ELSE size - 1 - 0 + 1
    BY <2>1, FS_Interval
  <2> QED
    BY <1>1, <2>2
<1>6. place \in Surjection(S, 0 .. size - 1)
  BY <1>4, <1>5, FS_Injection
<1>7. ASSUME NEW n \in 1 .. size PROVE \E i \in S : Cardinality(Ahead(q, i)) = n - 1
  <2>1. n - 1 \in 0 .. size - 1
    BY <1>1
  <2>2. \E i \in S : place[i] = n - 1
    BY <1>6, <2>1 DEF Surjection
  <2> QED
    BY <2>2
<1> QED
  BY <1>1, <1>2, <1>3, <1>7

\* The answer is everything that is listed, in its order.
LEMMA Sorted ==
    ASSUME catalog \in [Items -> Profiles], NEW q
    PROVE  /\ Found(q) \in Seq(Listing(q))
           /\ Len(Found(q)) = Cardinality(Listing(q))
           /\ \A m, n \in DOMAIN Found(q) : m < n => Before(q, Found(q)[m], Found(q)[n])
           /\ {Found(q)[n] : n \in DOMAIN Found(q)} = Listing(q)
<1> DEFINE S == Listing(q)
           size == Cardinality(S)
           F == Found(q)
<1>1. ASSUME NEW n \in 1 .. size
      PROVE  F[n] \in S /\ Cardinality(Ahead(q, F[n])) = n - 1
  <2>1. \E i \in S : Cardinality(Ahead(q, i)) = n - 1
    BY Places
  <2>2. F[n] = CHOOSE i \in S : Cardinality(Ahead(q, i)) = n - 1
    BY DEF Found
  <2> QED
    BY <2>1, <2>2
<1>2. size \in Nat /\ F = [n \in 1 .. size |-> F[n]]
  BY Places DEF Found
<1>3. F \in Seq(S) /\ Len(F) = size /\ DOMAIN F = 1 .. size
  BY <1>1, <1>2
<1>4. ASSUME NEW m \in DOMAIN F, NEW n \in DOMAIN F, m < n
      PROVE  Before(q, F[m], F[n])
  <2>1. F[m] \in S /\ F[n] \in S /\ F[m] # F[n]
        /\ Cardinality(Ahead(q, F[m])) = m - 1 /\ Cardinality(Ahead(q, F[n])) = n - 1
    BY <1>1, <1>3, <1>4
  <2>2. ~Before(q, F[n], F[m])
    <3> SUFFICES ASSUME Before(q, F[n], F[m]) PROVE FALSE
      OBVIOUS
    <3>1. n - 1 < m - 1
      BY <2>1, Places
    <3> QED
      BY <1>3, <1>4, <3>1
  <2> QED
    BY <2>1, <2>2, Ordered, Listings
<1>5. ASSUME NEW i \in S PROVE \E n \in DOMAIN F : F[n] = i
  <2> DEFINE n == Cardinality(Ahead(q, i)) + 1
  <2>1. n \in 1 .. size
    BY Places, <1>2
  <2>2. Cardinality(Ahead(q, F[n])) = Cardinality(Ahead(q, i)) /\ F[n] \in S
    BY <1>1, <2>1, Places
  <2>3. ~Before(q, i, F[n]) /\ ~Before(q, F[n], i)
    BY <2>2, Places
  <2>4. F[n] = i
    <3>1. i \in Items /\ F[n] \in Items
      BY <2>2, Listings
    <3> QED
      BY <2>3, <3>1, Ordered
  <2> QED
    BY <1>3, <2>1, <2>4
<1> QED
  BY <1>1, <1>3, <1>4, <1>5

\* What was shown is the beginning of the answer, as far as the pages reach.
PageInv ==
    /\ catalog \in [Items -> Profiles]
    /\ page \in Nat
    /\ shown \in Seq(Items)
    /\ Len(shown) = IF page * Limit < Len(Found(query)) THEN page * Limit ELSE Len(Found(query))
    /\ \A n \in 1 .. Len(shown) : shown[n] = Found(query)[n]

\* The answer does not change while its pages are read.
LEMMA SameAnswer ==
    ASSUME UNCHANGED <<catalog, query>> PROVE Found(query)' = Found(query)
  BY DEF Found, Ahead, Listing, Candidates, Matches, Passes, Before

\* A page of the answer, put behind what was shown.
LEMMA Cut ==
    ASSUME NEW F \in Seq(Items), NEW old \in Nat, NEW end \in Nat,
           old + 1 <= end, end <= Len(F)
    PROVE  /\ SubSeq(F, old + 1, end) \in Seq(Items)
           /\ Len(SubSeq(F, old + 1, end)) = end - old
           /\ \A n \in 1 .. end - old : SubSeq(F, old + 1, end)[n] = F[old + n]
<1>1. /\ old + 1 \in 1 .. Len(F) /\ end \in 1 .. Len(F)
      /\ end - (old + 1) + 1 = end - old
  OBVIOUS
<1>2. /\ SubSeq(F, old + 1, end) \in Seq(Items)
      /\ Len(SubSeq(F, old + 1, end)) = end - old
  BY <1>1
<1>3. ASSUME NEW n \in 1 .. end - old PROVE SubSeq(F, old + 1, end)[n] = F[old + n]
  <2>1. SubSeq(F, old + 1, end)[n] = F[old + 1 + n - 1]
    BY <1>1
  <2> QED
    BY <2>1
<1> QED
  BY <1>2, <1>3

LEMMA Joined ==
    ASSUME NEW first \in Seq(Items), NEW second \in Seq(Items)
    PROVE  /\ first \o second \in Seq(Items)
           /\ Len(first \o second) = Len(first) + Len(second)
           /\ \A n \in 1 .. Len(first) : (first \o second)[n] = first[n]
           /\ \A n \in 1 .. Len(second) : (first \o second)[Len(first) + n] = second[n]
  OBVIOUS

LEMMA PageTurned ==
    ASSUME PageInv, [NextPage]_searchVars
    PROVE  PageInv'
<1>1. CASE NextPage
  <2> DEFINE F == Found(query)
             old == page * Limit
             end == IF old + Limit < Len(F) THEN old + Limit ELSE Len(F)
             tail == SubSeq(F, old + 1, end)
  <2>1. /\ F \in Seq(Items) /\ Len(F) \in Nat
    <3>1. F \in Seq(Listing(query)) /\ Len(F) = Cardinality(Listing(query))
      BY Sorted DEF PageInv
    <3> QED
      BY <3>1, Listings
  <2>2. /\ page \in Nat /\ Limit \in Nat /\ Limit > 0 /\ old \in Nat
        /\ (page + 1) * Limit = old + Limit
    BY SearchAssumption DEF PageInv
  <2>3. /\ page' = page + 1 /\ UNCHANGED <<catalog, query>>
        /\ old < Len(F)
        /\ shown' = shown \o SubSeq(F, Skip(page') + 1,
                                    IF Skip(page') + Limit < Len(F)
                                    THEN Skip(page') + Limit ELSE Len(F))
    BY <1>1 DEF NextPage
  <2>4. Skip(page') = old
    BY <2>2, <2>3 DEF Skip
  <2>5. shown' = shown \o tail
    BY <2>3, <2>4
  <2>6. end \in Nat /\ old + 1 <= end /\ end <= Len(F)
    BY <2>1, <2>2, <2>3
  <2>7. shown \in Seq(Items) /\ Len(shown) = old /\ \A n \in 1 .. old : shown[n] = F[n]
    BY <2>3 DEF PageInv
  <2>8. /\ tail \in Seq(Items) /\ Len(tail) = end - old
        /\ \A n \in 1 .. end - old : tail[n] = F[old + n]
    BY <2>1, <2>2, <2>6, Cut
  <2>9. Found(query)' = F /\ page' * Limit = old + Limit
    BY <2>2, <2>3, SameAnswer
  <2>10. end = IF page' * Limit < Len(Found(query)') THEN page' * Limit ELSE Len(Found(query)')
    BY <2>9
  <2> HIDE DEF F, old, end, tail
  <2>11. shown' \in Seq(Items) /\ Len(shown') = end
    <3>1. shown \o tail \in Seq(Items) /\ Len(shown \o tail) = Len(shown) + Len(tail)
      BY <2>7, <2>8, Joined
    <3> QED
      BY <2>2, <2>5, <2>6, <2>7, <2>8, <3>1
  <2>12. \A n \in 1 .. end : shown'[n] = F[n]
    <3> TAKE n \in 1 .. end
    <3>1. CASE n <= old
      BY <2>2, <2>5, <2>7, <2>8, <3>1
    <3>2. CASE n > old
      <4>1. n - old \in 1 .. end - old /\ old + (n - old) = n
        BY <2>2, <2>6, <3>2
      <4>2. shown'[n] = tail[n - old]
        BY <2>2, <2>5, <2>6, <2>7, <2>8, <3>2
      <4> QED
        BY <2>8, <4>1, <4>2
    <3> QED
      BY <2>2, <2>6, <3>1, <3>2
  <2>13. catalog' \in [Items -> Profiles] /\ page' \in Nat
    BY <2>2, <2>3 DEF PageInv
  <2> QED
    BY <2>9, <2>10, <2>11, <2>12, <2>13 DEF PageInv
<1>2. CASE UNCHANGED searchVars
  <2>1. UNCHANGED <<catalog, query, page, shown>>
    BY <1>2 DEF searchVars
  <2>2. Found(query)' = Found(query)
    BY <2>1, SameAnswer
  <2> QED
    BY <2>1, <2>2 DEF PageInv
<1> QED
  BY <1>1, <1>2

\* Page by page the app receives each listing that matches once, in the order
\* it asked for (assets.service.ts search).
THEOREM Paging == SearchSpec => []PagesAreTheList
<1>1. SearchInit => PageInv
  <2> SUFFICES ASSUME SearchInit PROVE PageInv
    OBVIOUS
  <2>1. catalog \in [Items -> Profiles] /\ page = 0 /\ shown = <<>>
    BY DEF SearchInit
  <2>2. Len(Found(query)) \in Nat
    BY <2>1, Sorted, Places
  <2>3. page * Limit = 0
    BY <2>1, SearchAssumption
  <2> QED
    BY <2>1, <2>2, <2>3 DEF PageInv
<1>2. PageInv => PagesAreTheList
  <2> SUFFICES ASSUME PageInv PROVE PagesAreTheList
    OBVIOUS
  <2> DEFINE F == Found(query)
             promised == IF Advanced(query)
                         THEN {i \in Candidates(query) : Passes(i, query)}
                         ELSE {i \in Items : Matches(i, query)}
  <2>1. promised = Listing(query)
    BY DEF Listing, Candidates
  <2>2. /\ F \in Seq(Listing(query)) /\ Len(F) = Cardinality(Listing(query))
        /\ \A m, n \in DOMAIN F : m < n => Before(query, F[m], F[n])
        /\ {F[n] : n \in DOMAIN F} = Listing(query)
    BY Sorted DEF PageInv
  <2>3. DOMAIN F = 1 .. Len(F) /\ Len(F) \in Nat /\ page * Limit \in Nat
    BY <2>2, SearchAssumption DEF PageInv
  <2>4. DOMAIN shown = 1 .. Len(shown) /\ Len(shown) \in Nat /\ Len(shown) <= Len(F)
    BY <2>3 DEF PageInv
  <2>5. ASSUME NEW m \in DOMAIN shown, NEW n \in DOMAIN shown, m < n
        PROVE  Before(query, shown[m], shown[n])
    <3>1. m \in DOMAIN F /\ n \in DOMAIN F
      BY <2>3, <2>4
    <3>2. shown[m] = F[m] /\ shown[n] = F[n]
      BY <2>4 DEF PageInv
    <3> QED
      BY <2>2, <2>5, <3>1, <3>2
  <2>6. ASSUME page * Limit >= Cardinality(promised)
        PROVE  {shown[n] : n \in DOMAIN shown} = promised
    <3>1. page * Limit >= Len(F)
      BY <2>1, <2>2, <2>6
    <3>2. Len(shown) = Len(F)
      BY <2>3, <3>1 DEF PageInv
    <3>3. DOMAIN shown = DOMAIN F /\ \A n \in DOMAIN F : shown[n] = F[n]
      BY <2>3, <2>4, <3>2 DEF PageInv
    <3> QED
      BY <2>1, <2>2, <3>3
  <2> QED
    BY <2>5, <2>6 DEF PagesAreTheList
<1> QED
  BY <1>1, <1>2, PageTurned, PTL DEF SearchSpec

----------------------------------------------------------------------------
(* Codes.  A used code is in the hands of one scan, or it confirmed its    *)
(* session and no other code did.                                          *)
Code == [session : Nat, live : BOOLEAN, used : BOOLEAN]

QrRows ==
    /\ codes \in [Rentals -> Seq(Code)]
    /\ handovers \in [Rentals -> Seq(Handover)]
    /\ \A r \in Rentals : \A c \in DOMAIN codes[r] :
          codes[r][c].session \in DOMAIN handovers[r]

QrRequest(q) ==
    /\ q.op \in {"retire", "generate", "claim", "scan", "confirm"} =>
          q.r \in Rentals /\ q.i \in DOMAIN handovers[q.r]
    /\ q.op = "startHandover" => q.r \in Rentals /\ q.type \in HandoverType
    /\ q.op \in {"claim", "scan"} =>
          q.c \in DOMAIN codes[q.r] /\ codes[q.r][q.c].session = q.i

Scans(q, r, c) == q.op = "scan" /\ q.r = r /\ q.c = c

Scanned(r, c) == \E w \in Workers : Scans(req[w], r, c)

Free(r, c) == codes[r][c].used /\ ~Scanned(r, c)

\* the scan of a code holds it, and is the only one
InHand(r) ==
    \A w \in Workers : req[w].op = "scan" /\ req[w].r = r => codes[r][req[w].c].used
Alone(r) ==
    \A v, w \in Workers :
        req[v].op = "scan" /\ req[v].r = r /\ Scans(req[w], r, req[v].c) => v = w

\* used and let go: one for a session, and the session is confirmed
OneEach(r) ==
    \A c, d \in DOMAIN codes[r] :
        Free(r, c) /\ Free(r, d) /\ codes[r][c].session = codes[r][d].session => c = d
Stands(r) ==
    \A c \in DOMAIN codes[r] :
        Free(r, c) => handovers[r][codes[r][c].session].status = "CONFIRMED"

InOrder(r) == InHand(r) /\ Alone(r) /\ OneEach(r) /\ Stands(r)

QrInv ==
    /\ QrRows
    /\ req = [w \in Workers |-> req[w]]
    /\ \A w \in Workers : QrRequest(req[w])
    /\ \A r \in Rentals \ stranded : InOrder(r)

\* What most steps leave of codes and sessions: there may be more of them,
\* and the new codes are not used.
Lasting ==
    \A r \in Rentals :
        /\ DOMAIN codes[r] \subseteq DOMAIN codes'[r]
        /\ \A c \in DOMAIN codes[r] : codes'[r][c].session = codes[r][c].session
        /\ DOMAIN handovers[r] \subseteq DOMAIN handovers'[r]

Kept ==
    /\ Lasting
    /\ \A r \in Rentals :
        /\ \A c \in DOMAIN codes[r] : codes'[r][c].used = codes[r][c].used
        /\ \A c \in DOMAIN codes'[r] \ DOMAIN codes[r] : ~codes'[r][c].used
        /\ \A i \in DOMAIN handovers[r] :
              handovers[r][i].status = "CONFIRMED" => handovers'[r][i].status = "CONFIRMED"

\* A request is still about a session and a code.
LEMMA RequestKept ==
    ASSUME QrInv, Lasting, NEW q, QrRequest(q) PROVE QrRequest(q)'
  BY DEF QrInv, Lasting, QrRequest, QrRows

\* Steps of handlers that hold no claim.
LEMMA QrApart ==
    ASSUME QrInv, Kept, QrRows', stranded \subseteq stranded',
           req' = [v \in Workers |-> req'[v]],
           \A v \in Workers :
              \/ req'[v] = req[v]
              \/ req[v].op # "scan" /\ req'[v].op # "scan" /\ QrRequest(req'[v])
    PROVE  QrInv'
<1>1. ASSUME NEW v \in Workers PROVE QrRequest(req[v])'
  <2>q. PICK q : q = req'[v]
    OBVIOUS
  <2>1. QrRequest(q)
    BY <2>q DEF QrInv
  <2>2. QrRequest(q)'
    BY <2>1, RequestKept DEF Kept
  <2> QED
    BY <2>q, <2>2
<1>2. ASSUME NEW r \in Rentals \ stranded' PROVE InOrder(r)'
  <2>1. InOrder(r)
    BY DEF QrInv
  <2>2. \A v \in Workers : req'[v].op = "scan" \/ req[v].op = "scan" => req'[v] = req[v]
    OBVIOUS
  <2>3. \A c : Scanned(r, c)' <=> Scanned(r, c)
    BY <2>2 DEF Scanned, Scans
  <2>4. \A v \in Workers : req[v].op = "scan" /\ req[v].r = r => req[v].c \in DOMAIN codes[r]
    BY DEF QrInv, QrRequest
  <2>5. \A c \in DOMAIN codes'[r] : Free(r, c)' =>
           /\ c \in DOMAIN codes[r] /\ Free(r, c)
           /\ codes'[r][c].session = codes[r][c].session
    BY <2>3 DEF Kept, Lasting, Free
  <2>6. \A c \in DOMAIN codes[r] : codes[r][c].session \in DOMAIN handovers[r]
    BY DEF QrInv, QrRows
  <2>7. InHand(r)'
    BY <2>1, <2>2, <2>4 DEF InOrder, InHand, Kept, Lasting
  <2>8. Alone(r)'
    BY <2>1, <2>2 DEF InOrder, Alone, Scans
  <2>9. OneEach(r)'
    BY <2>1, <2>5 DEF InOrder, OneEach
  <2>10. Stands(r)'
    BY <2>1, <2>5, <2>6 DEF InOrder, Stands, Kept, Lasting
  <2> QED
    BY <2>7, <2>8, <2>9, <2>10 DEF InOrder
<1> QED
  BY <1>1, <1>2 DEF QrInv

\* The same for a step of one handler.
LEMMA QrHandlerApart ==
    ASSUME QrInv, Kept, QrRows', stranded \subseteq stranded',
           NEW w \in Workers, NEW q, req' = [req EXCEPT ![w] = q],
           req[w].op # "scan", q.op # "scan", QrRequest(q)
    PROVE  QrInv'
<1>1. /\ req' = [v \in Workers |-> req'[v]] /\ req'[w] = q
      /\ \A v \in Workers \ {w} : req'[v] = req[v]
  BY OneMoves DEF QrInv
<1>2. \A v \in Workers :
         \/ req'[v] = req[v]
         \/ req[v].op # "scan" /\ req'[v].op # "scan" /\ QrRequest(req'[v])
  BY <1>1
<1> QED
  BY <1>1, <1>2, QrApart

\* Nothing changes but the request.
LEMMA RowsApart ==
    ASSUME QrInv, codes' = codes, handovers' = handovers
    PROVE  Kept /\ QrRows'
  BY DEF QrInv, QrRows, Kept, Lasting

\* The sessions of one rental change.
LEMMA SessionsApart ==
    ASSUME QrInv, codes' = codes, NEW r \in Rentals, NEW rows \in Seq(Handover),
           handovers' = [handovers EXCEPT ![r] = rows],
           DOMAIN handovers[r] \subseteq DOMAIN rows,
           \A i \in DOMAIN handovers[r] :
              handovers[r][i].status = "CONFIRMED" => rows[i].status = "CONFIRMED"
    PROVE  Kept /\ QrRows'
<1>1. /\ handovers' \in [Rentals -> Seq(Handover)] /\ handovers'[r] = rows
      /\ \A s \in Rentals \ {r} : handovers'[s] = handovers[s]
  BY DEF QrInv, QrRows
<1>2. Kept
  BY <1>1 DEF QrInv, QrRows, Kept, Lasting
<1>3. \A s \in Rentals : DOMAIN handovers[s] \subseteq DOMAIN handovers'[s]
  BY <1>2 DEF Kept, Lasting
<1> QED
  BY <1>1, <1>2, <1>3 DEF QrInv, QrRows

LEMMA Confirmed ==
    ASSUME QrInv, NEW r \in Rentals, NEW i \in DOMAIN handovers[r],
           handovers' = [handovers EXCEPT ![r][i].status = "CONFIRMED"]
    PROVE  \E rows \in Seq(Handover) :
              /\ handovers' = [handovers EXCEPT ![r] = rows]
              /\ DOMAIN rows = DOMAIN handovers[r]
              /\ rows[i].status = "CONFIRMED"
              /\ \A j \in DOMAIN handovers[r] \ {i} : rows[j] = handovers[r][j]
<1>s. handovers[r] \in Seq(Handover)
  BY DEF QrInv, QrRows
<1>h. PICK h : h = [handovers[r][i] EXCEPT !.status = "CONFIRMED"]
  OBVIOUS
<1>r. PICK rows : rows = [handovers[r] EXCEPT ![i] = h]
  OBVIOUS
<1>1. handovers[r][i] \in Handover
  BY <1>s
<1>2. h \in Handover /\ h.status = "CONFIRMED"
  BY <1>h, <1>1 DEF Handover
<1>3. rows \in Seq(Handover)
  BY <1>s, <1>r, <1>2
<1>4. handovers' = [handovers EXCEPT ![r] = rows]
  BY <1>h, <1>r
<1> QED
  BY <1>s, <1>r, <1>2, <1>3, <1>4

\* The codes of one rental change, but for what the property reads of them.
LEMMA CodesApart ==
    ASSUME QrInv, handovers' = handovers, NEW r \in Rentals, NEW rows \in Seq(Code),
           codes' = [codes EXCEPT ![r] = rows],
           DOMAIN codes[r] \subseteq DOMAIN rows,
           \A c \in DOMAIN codes[r] : rows[c].session = codes[r][c].session
                                      /\ rows[c].used = codes[r][c].used,
           \A c \in DOMAIN rows \ DOMAIN codes[r] :
              ~rows[c].used /\ rows[c].session \in DOMAIN handovers[r]
    PROVE  Kept /\ QrRows'
<1>1. /\ codes' \in [Rentals -> Seq(Code)] /\ codes'[r] = rows
      /\ \A s \in Rentals \ {r} : codes'[s] = codes[s]
  BY DEF QrInv, QrRows
<1>2. Kept
  BY <1>1 DEF QrInv, QrRows, Kept, Lasting
<1>3. \A s \in Rentals : \A c \in DOMAIN codes'[s] :
         codes'[s][c].session \in DOMAIN handovers[s]
  <2> SUFFICES ASSUME NEW s \in Rentals, NEW c \in DOMAIN codes'[s]
               PROVE  codes'[s][c].session \in DOMAIN handovers[s]
    OBVIOUS
  <2>1. CASE s = r
    BY <1>1, <2>1 DEF QrInv, QrRows
  <2>2. CASE s # r
    BY <1>1, <2>2 DEF QrInv, QrRows
  <2> QED
    BY <2>1, <2>2
<1> QED
  BY <1>1, <1>2, <1>3 DEF QrInv, QrRows

\* The steps that generate a code, and the end of its minute.
LEMMA GenerateStep ==
    ASSUME QrInv, NEW w \in Workers, GenerateRetire(w) \/ GenerateCreate(w)
    PROVE  QrInv'
<1>r. PICK r : r = req[w].r
  OBVIOUS
<1>i. PICK i : i = req[w].i
  OBVIOUS
<1>1. /\ req[w].op \in {"retire", "generate"} /\ handovers' = handovers /\ stranded' = stranded
  BY DEF GenerateRetire, GenerateCreate, tables
<1>2. QrRequest(req[w]) /\ r \in Rentals /\ i \in DOMAIN handovers[r]
  BY <1>r, <1>i, <1>1 DEF QrInv, QrRequest
<1>s. codes[r] \in Seq(Code) /\ handovers[r] \in Seq(Handover)
  BY <1>2 DEF QrInv, QrRows
<1>3. CASE GenerateRetire(w)
  <2>q. PICK q : q = [req[w] EXCEPT !.op = "generate"]
    OBVIOUS
  <2>c. PICK rows : rows = [c \in DOMAIN codes[r] |->
                              IF codes[r][c].session = i /\ ~codes[r][c].used
                              THEN [codes[r][c] EXCEPT !.live = FALSE] ELSE codes[r][c]]
    OBVIOUS
  <2>1. /\ req[w].op = "retire" /\ req' = [req EXCEPT ![w] = q]
        /\ codes' = [codes EXCEPT ![r] = rows]
    BY <1>r, <1>i, <1>3, <2>q, <2>c DEF GenerateRetire, Continue
  <2>2. QrRequest(q) /\ q.op # "scan"
    BY <1>2, <2>q, <2>1 DEF QrRequest
  <2>3. \A c \in DOMAIN codes[r] :
           /\ rows[c] \in Code
           /\ rows[c].session = codes[r][c].session /\ rows[c].used = codes[r][c].used
    <3> SUFFICES ASSUME NEW c \in DOMAIN codes[r]
                 PROVE  /\ rows[c] \in Code
                        /\ rows[c].session = codes[r][c].session
                        /\ rows[c].used = codes[r][c].used
      OBVIOUS
    <3>1. codes[r][c] \in Code
      BY <1>s
    <3>2. [codes[r][c] EXCEPT !.live = FALSE] \in Code
      BY <3>1 DEF Code
    <3> QED
      BY <2>c, <3>1, <3>2 DEF Code
  <2>4. rows \in Seq(Code) /\ DOMAIN rows = DOMAIN codes[r]
    <3>1. DOMAIN rows = DOMAIN codes[r]
      BY <2>c
    <3>2. DOMAIN codes[r] = 1 .. Len(codes[r]) /\ Len(codes[r]) \in Nat
      BY <1>s
    <3>3. rows \in [1 .. Len(codes[r]) -> Code]
      BY <2>c, <2>3, <3>2
    <3> QED
      BY <3>1, <3>2, <3>3
  <2>5. Kept /\ QrRows'
    BY <1>1, <1>2, <2>1, <2>3, <2>4, CodesApart
  <2> QED
    BY <1>1, <2>1, <2>2, <2>5, QrHandlerApart
<1>4. CASE GenerateCreate(w)
  <2>n. PICK new : new = [session |-> i, live |-> TRUE, used |-> FALSE]
    OBVIOUS
  <2>c. PICK rows : rows = Append(codes[r], new)
    OBVIOUS
  <2>1. /\ req[w].op = "generate" /\ req' = [req EXCEPT ![w] = Idle]
        /\ codes' = [codes EXCEPT ![r] = rows]
    BY <1>r, <1>i, <1>4, <2>n, <2>c DEF GenerateCreate, Done
  <2>2. QrRequest(Idle) /\ Idle.op # "scan"
    BY DEF QrRequest, Idle
  <2>3. i \in Nat
    BY <1>2, <1>s
  <2>4. new \in Code /\ ~new.used /\ new.session = i
    BY <2>n, <2>3 DEF Code
  <2>5. /\ rows \in Seq(Code) /\ DOMAIN codes[r] \subseteq DOMAIN rows
        /\ \A c \in DOMAIN codes[r] : rows[c] = codes[r][c]
        /\ \A c \in DOMAIN rows \ DOMAIN codes[r] : rows[c] = new
    BY <1>s, <2>c, <2>4
  <2>6. Kept /\ QrRows'
    BY <1>1, <1>2, <2>1, <2>4, <2>5, CodesApart
  <2> QED
    BY <1>1, <2>1, <2>2, <2>6, QrHandlerApart
<1> QED
  BY <1>3, <1>4

LEMMA ExpiryStep ==
    ASSUME QrInv, NEW r \in Rentals, CodeExpires(r)
    PROVE  QrInv'
<1>1. PICK c \in DOMAIN codes[r] : codes' = [codes EXCEPT ![r][c].live = FALSE]
  BY DEF CodeExpires
<1>2. handovers' = handovers /\ stranded' = stranded /\ req' = req
  BY DEF CodeExpires, tables
<1>s. codes[r] \in Seq(Code)
  BY DEF QrInv, QrRows
<1>n. PICK new : new = [codes[r][c] EXCEPT !.live = FALSE]
  OBVIOUS
<1>r. PICK rows : rows = [codes[r] EXCEPT ![c] = new]
  OBVIOUS
<1>3. codes' = [codes EXCEPT ![r] = rows]
  BY <1>1, <1>n, <1>r
<1>4. codes[r][c] \in Code
  BY <1>s
<1>5. new \in Code /\ new.session = codes[r][c].session /\ new.used = codes[r][c].used
  BY <1>n, <1>4 DEF Code
<1>6. /\ rows \in Seq(Code) /\ DOMAIN rows = DOMAIN codes[r]
      /\ \A d \in DOMAIN codes[r] :
            rows[d].session = codes[r][d].session /\ rows[d].used = codes[r][d].used
  BY <1>s, <1>r, <1>5
<1>7. Kept /\ QrRows'
  BY <1>2, <1>3, <1>6, CodesApart
<1>8. req' = [v \in Workers |-> req'[v]]
  BY <1>2 DEF QrInv
<1> QED
  BY <1>2, <1>7, <1>8, QrApart

\* The codes of the other rentals, when a scan of one of them goes on.
LEMMA OtherRental ==
    ASSUME NEW s \in Rentals, InOrder(s), codes'[s] = codes[s], handovers'[s] = handovers[s],
           \A v \in Workers :
              \/ req'[v] = req[v]
              \/ ~(req[v].op = "scan" /\ req[v].r = s) /\ ~(req'[v].op = "scan" /\ req'[v].r = s)
    PROVE  InOrder(s)'
<1>1. \A c : Scanned(s, c)' <=> Scanned(s, c)
  BY DEF Scanned, Scans
<1>2. \A c : Free(s, c)' <=> Free(s, c)
  BY <1>1 DEF Free
<1>3. InHand(s)'
  BY DEF InOrder, InHand
<1>4. Alone(s)'
  BY DEF InOrder, Alone, Scans
<1>5. OneEach(s)'
  BY <1>2 DEF InOrder, OneEach
<1>6. Stands(s)'
  BY <1>2 DEF InOrder, Stands
<1> QED
  BY <1>3, <1>4, <1>5, <1>6 DEF InOrder

\* A scan begins to hold a code of r, or lets it go.
LEMMA ScanMoves ==
    ASSUME QrInv, Lasting, QrRows', stranded \subseteq stranded',
           NEW w \in Workers, NEW q, req' = [req EXCEPT ![w] = q], QrRequest(q),
           NEW r,
           \A s \in Rentals \ {r} : codes'[s] = codes[s] /\ handovers'[s] = handovers[s],
           req[w].op = "scan" => req[w].r = r,
           q.op = "scan" => q.r = r,
           r \in Rentals \ stranded' => InOrder(r)'
    PROVE  QrInv'
<1>1. /\ req' = [v \in Workers |-> req'[v]] /\ req'[w] = q
      /\ \A v \in Workers \ {w} : req'[v] = req[v]
  BY OneMoves DEF QrInv
<1>2. ASSUME NEW v \in Workers PROVE QrRequest(req[v])'
  <2>p. PICK p : p = req'[v]
    OBVIOUS
  <2>1. QrRequest(p)
    BY <1>1, <2>p DEF QrInv
  <2>2. QrRequest(p)'
    BY <2>1, RequestKept
  <2> QED
    BY <2>p, <2>2
<1>3. ASSUME NEW s \in Rentals \ stranded', s # r PROVE InOrder(s)'
  <2>1. InOrder(s) /\ codes'[s] = codes[s] /\ handovers'[s] = handovers[s]
    BY <1>3 DEF QrInv
  <2>2. \A v \in Workers :
           \/ req'[v] = req[v]
           \/ ~(req[v].op = "scan" /\ req[v].r = s) /\ ~(req'[v].op = "scan" /\ req'[v].r = s)
    BY <1>1, <1>3
  <2> QED
    BY <2>1, <2>2, OtherRental
<1> QED
  BY <1>1, <1>2, <1>3 DEF QrInv

\* One code of a rental is marked as used, or as not used.
LEMMA CodeMarked ==
    ASSUME QrInv, NEW r \in Rentals, NEW c \in DOMAIN codes[r], NEW used \in BOOLEAN,
           codes' = [codes EXCEPT ![r][c].used = used], handovers' = handovers
    PROVE  /\ Lasting /\ QrRows'
           /\ \A s \in Rentals \ {r} : codes'[s] = codes[s]
           /\ DOMAIN codes'[r] = DOMAIN codes[r]
           /\ codes'[r][c].used = used
           /\ \A d \in DOMAIN codes[r] \ {c} : codes'[r][d] = codes[r][d]
<1>s. codes[r] \in Seq(Code)
  BY DEF QrInv, QrRows
<1>n. PICK new : new = [codes[r][c] EXCEPT !.used = used]
  OBVIOUS
<1>r. PICK rows : rows = [codes[r] EXCEPT ![c] = new]
  OBVIOUS
<1>1. codes' = [codes EXCEPT ![r] = rows]
  BY <1>n, <1>r
<1>2. codes[r][c] \in Code
  BY <1>s
<1>3. new \in Code /\ new.session = codes[r][c].session /\ new.used = used
  BY <1>n, <1>2 DEF Code
<1>4. /\ rows \in Seq(Code) /\ DOMAIN rows = DOMAIN codes[r] /\ rows[c] = new
      /\ \A d \in DOMAIN codes[r] \ {c} : rows[d] = codes[r][d]
  BY <1>s, <1>r, <1>3
<1>5. /\ codes' \in [Rentals -> Seq(Code)] /\ codes'[r] = rows
      /\ \A s \in Rentals \ {r} : codes'[s] = codes[s]
  BY <1>1, <1>4 DEF QrInv, QrRows
<1>6. \A d \in DOMAIN codes[r] : rows[d].session = codes[r][d].session
  BY <1>3, <1>4
<1>7. Lasting
  BY <1>4, <1>5, <1>6 DEF Lasting
<1>8. \A s \in Rentals : \A d \in DOMAIN codes'[s] :
         codes'[s][d].session \in DOMAIN handovers[s]
  <2> SUFFICES ASSUME NEW s \in Rentals, NEW d \in DOMAIN codes'[s]
               PROVE  codes'[s][d].session \in DOMAIN handovers[s]
    OBVIOUS
  <2>1. CASE s = r
    BY <1>4, <1>5, <1>6, <2>1 DEF QrInv, QrRows
  <2>2. CASE s # r
    BY <1>5, <2>2 DEF QrInv, QrRows
  <2> QED
    BY <2>1, <2>2
<1>9. QrRows'
  BY <1>5, <1>8 DEF QrInv, QrRows
<1> QED
  BY <1>3, <1>4, <1>5, <1>7, <1>9

LEMMA ClaimStep ==
    ASSUME QrInv, NEW w \in Workers, ScanClaim(w)
    PROVE  QrInv'
<1>r. PICK r : r = req[w].r
  OBVIOUS
<1>c. PICK c : c = req[w].c
  OBVIOUS
<1>q. PICK q : q = [req[w] EXCEPT !.op = "scan"]
  OBVIOUS
<1>1. /\ req[w].op = "claim" /\ req' = [req EXCEPT ![w] = q] /\ ~codes[r][c].used
      /\ codes' = [codes EXCEPT ![r][c].used = TRUE]
      /\ handovers' = handovers /\ stranded' = stranded
  BY <1>r, <1>c, <1>q DEF ScanClaim, Continue, tables
<1>2. QrRequest(req[w]) /\ r \in Rentals /\ c \in DOMAIN codes[r]
  BY <1>r, <1>c, <1>1 DEF QrInv, QrRequest
<1>3. QrRequest(q) /\ q.op = "scan" /\ q.r = r /\ q.c = c
  BY <1>r, <1>c, <1>q, <1>1, <1>2 DEF QrRequest
<1>4. PICK used \in BOOLEAN : used = TRUE
  OBVIOUS
<1>5. /\ Lasting /\ QrRows'
      /\ \A s \in Rentals \ {r} : codes'[s] = codes[s]
      /\ DOMAIN codes'[r] = DOMAIN codes[r]
      /\ codes'[r][c].used
      /\ \A d \in DOMAIN codes[r] \ {c} : codes'[r][d] = codes[r][d]
  <2>1. codes' = [codes EXCEPT ![r][c].used = used]
    BY <1>1, <1>4
  <2>2. /\ Lasting /\ QrRows'
        /\ \A s \in Rentals \ {r} : codes'[s] = codes[s]
        /\ DOMAIN codes'[r] = DOMAIN codes[r]
        /\ codes'[r][c].used = used
        /\ \A d \in DOMAIN codes[r] \ {c} : codes'[r][d] = codes[r][d]
    BY <1>1, <1>2, <2>1, CodeMarked
  <2> QED
    BY <1>4, <2>2
<1>6. /\ req' = [v \in Workers |-> req'[v]] /\ req'[w] = q
      /\ \A v \in Workers \ {w} : req'[v] = req[v]
  BY <1>1, OneMoves DEF QrInv
<1>7. ASSUME InOrder(r) PROVE InOrder(r)'
  <2>1. \A v \in Workers : ~Scans(req[v], r, c)
    BY <1>1, <1>7 DEF InOrder, InHand, Scans
  <2>2. \A v \in Workers : req[v].op = "scan" /\ req[v].r = r => req[v].c \in DOMAIN codes[r]
    BY DEF QrInv, QrRequest
  <2>3. InHand(r)'
    BY <1>3, <1>5, <1>6, <1>7, <2>2 DEF InOrder, InHand
  <2>4. Alone(r)'
    BY <1>3, <1>6, <1>7, <2>1 DEF InOrder, Alone, Scans
  <2>8. \A d : Scanned(r, d)' <=> Scanned(r, d) \/ d = c
    BY <1>1, <1>3, <1>6 DEF Scanned, Scans
  <2>9. c \in DOMAIN codes[r] /\ ~codes[r][c].used
    BY <1>1, <1>2
  <2>5. \A d \in DOMAIN codes[r] : Free(r, d)' => d # c /\ Free(r, d)
    BY <1>5, <2>8, <2>9 DEF Free
  <2>6. OneEach(r)'
    BY <1>5, <1>7, <2>5 DEF InOrder, OneEach
  <2>7. Stands(r)'
    BY <1>1, <1>5, <1>7, <2>5 DEF InOrder, Stands
  <2> QED
    BY <2>3, <2>4, <2>6, <2>7 DEF InOrder
<1> QED
  BY <1>1, <1>3, <1>5, <1>7, ScanMoves DEF QrInv

\* What letting a code go leaves of the other codes of the rental.
LEMMA LetGo ==
    ASSUME QrInv, NEW w \in Workers, NEW r \in Rentals, NEW c, Scans(req[w], r, c),
           req' = [req EXCEPT ![w] = Idle], InOrder(r)
    PROVE  /\ \A d : Scanned(r, d)' <=> Scanned(r, d) /\ d # c
           /\ Alone(r)'
           /\ \A v \in Workers : req'[v].op = "scan" /\ req'[v].r = r =>
                 req'[v] = req[v] /\ req[v].c # c
<1>1. /\ req' = [v \in Workers |-> req'[v]] /\ req'[w] = Idle
      /\ \A v \in Workers \ {w} : req'[v] = req[v]
  BY OneMoves DEF QrInv
<1>2. Idle.op # "scan"
  BY DEF Idle
<1>3. \A v \in Workers : Scans(req[v], r, c) => v = w
  BY DEF InOrder, Alone, Scans
<1>4. \A d : Scanned(r, d)' <=> Scanned(r, d) /\ d # c
  BY <1>1, <1>2, <1>3 DEF Scanned, Scans
<1>5. Alone(r)'
  BY <1>1, <1>2 DEF InOrder, Alone, Scans
<1> QED
  BY <1>1, <1>2, <1>3, <1>4, <1>5 DEF Scans

LEMMA ReleaseStep ==
    ASSUME QrInv, NEW w \in Workers, ScanRelease(w)
    PROVE  QrInv'
<1>r. PICK r : r = req[w].r
  OBVIOUS
<1>c. PICK c : c = req[w].c
  OBVIOUS
<1>1. /\ req[w].op = "scan" /\ req' = [req EXCEPT ![w] = Idle]
      /\ codes' = [codes EXCEPT ![r][c].used = FALSE]
      /\ handovers' = handovers /\ stranded' = stranded
  BY <1>r, <1>c DEF ScanRelease, Done, tables
<1>2. /\ r \in Rentals /\ c \in DOMAIN codes[r] /\ Scans(req[w], r, c)
  BY <1>r, <1>c, <1>1 DEF QrInv, QrRequest, Scans
<1>3. QrRequest(Idle) /\ Idle.op # "scan"
  BY DEF QrRequest, Idle
<1>4. PICK used \in BOOLEAN : used = FALSE
  OBVIOUS
<1>5. /\ Lasting /\ QrRows'
      /\ \A s \in Rentals \ {r} : codes'[s] = codes[s]
      /\ DOMAIN codes'[r] = DOMAIN codes[r]
      /\ ~codes'[r][c].used
      /\ \A d \in DOMAIN codes[r] \ {c} : codes'[r][d] = codes[r][d]
  <2>1. codes' = [codes EXCEPT ![r][c].used = used]
    BY <1>1, <1>4
  <2>2. /\ Lasting /\ QrRows'
        /\ \A s \in Rentals \ {r} : codes'[s] = codes[s]
        /\ DOMAIN codes'[r] = DOMAIN codes[r]
        /\ codes'[r][c].used = used
        /\ \A d \in DOMAIN codes[r] \ {c} : codes'[r][d] = codes[r][d]
    <3>1. handovers' = handovers /\ c \in DOMAIN codes[r] /\ r \in Rentals
      BY <1>1, <1>2
    <3> QED
      BY <2>1, <3>1, CodeMarked
  <2>3. ~used
    BY <1>4
  <2>4. ~codes'[r][c].used
    BY <2>2, <2>3
  <2> QED
    BY <2>2, <2>4
<1>6. ASSUME InOrder(r) PROVE InOrder(r)'
  <2>1. /\ \A d : Scanned(r, d)' <=> Scanned(r, d) /\ d # c
        /\ Alone(r)'
        /\ \A v \in Workers : req'[v].op = "scan" /\ req'[v].r = r =>
              req'[v] = req[v] /\ req[v].c # c
    BY <1>1, <1>2, <1>6, LetGo
  <2>2. \A v \in Workers : req[v].op = "scan" /\ req[v].r = r => req[v].c \in DOMAIN codes[r]
    BY DEF QrInv, QrRequest
  <2>3. InHand(r)'
    BY <1>5, <1>6, <2>1, <2>2 DEF InOrder, InHand
  <2>4. \A d \in DOMAIN codes[r] : Free(r, d)' => d # c /\ Free(r, d)
    BY <1>5, <2>1 DEF Free
  <2>5. OneEach(r)'
    BY <1>5, <1>6, <2>4 DEF InOrder, OneEach
  <2>6. Stands(r)'
    BY <1>1, <1>5, <1>6, <2>4 DEF InOrder, Stands
  <2> QED
    BY <2>1, <2>3, <2>5, <2>6 DEF InOrder
<1> QED
  BY <1>1, <1>2, <1>3, <1>5, <1>6, ScanMoves DEF QrInv, Scans

LEMMA ConfirmStep ==
    ASSUME QrInv, NEW w \in Workers, ScanConfirm(w)
    PROVE  QrInv'
<1>r. PICK r : r = req[w].r
  OBVIOUS
<1>c. PICK c : c = req[w].c
  OBVIOUS
<1>i. PICK i : i = req[w].i
  OBVIOUS
<1>1. /\ req[w].op = "scan" /\ req' = [req EXCEPT ![w] = Idle]
      /\ handovers[r][i].status = "PENDING"
      /\ handovers' = [handovers EXCEPT ![r][i].status = "CONFIRMED"]
      /\ codes' = codes /\ stranded' = stranded
  BY <1>r, <1>i DEF ScanConfirm, Done, qrVars
<1>2. /\ r \in Rentals /\ c \in DOMAIN codes[r] /\ Scans(req[w], r, c)
      /\ i \in DOMAIN handovers[r] /\ codes[r][c].session = i
  BY <1>r, <1>c, <1>i, <1>1 DEF QrInv, QrRequest, Scans
<1>3. QrRequest(Idle) /\ Idle.op # "scan"
  BY DEF QrRequest, Idle
<1>4. PICK rows \in Seq(Handover) :
         /\ handovers' = [handovers EXCEPT ![r] = rows]
         /\ DOMAIN rows = DOMAIN handovers[r]
         /\ rows[i].status = "CONFIRMED"
         /\ \A j \in DOMAIN handovers[r] \ {i} : rows[j] = handovers[r][j]
  BY <1>1, <1>2, Confirmed
<1>5. Kept /\ QrRows'
  BY <1>1, <1>2, <1>4, SessionsApart
<1>6. handovers'[r] = rows /\ \A s \in Rentals \ {r} : handovers'[s] = handovers[s]
  BY <1>2, <1>4 DEF QrInv, QrRows
<1>7. ASSUME InOrder(r) PROVE InOrder(r)'
  <2>1. /\ \A d : Scanned(r, d)' <=> Scanned(r, d) /\ d # c
        /\ Alone(r)'
        /\ \A v \in Workers : req'[v].op = "scan" /\ req'[v].r = r =>
              req'[v] = req[v] /\ req[v].c # c
    BY <1>1, <1>2, <1>7, LetGo
  <2>2. InHand(r)'
    BY <1>1, <1>7, <2>1 DEF InOrder, InHand
  <2>3. \A d \in DOMAIN codes[r] : Free(r, d)' => d = c \/ Free(r, d)
    BY <1>1, <2>1 DEF Free
  <2>4. \A d \in DOMAIN codes[r] : Free(r, d) => codes[r][d].session # i
    BY <1>1, <1>7 DEF InOrder, Stands
  <2>5. OneEach(r)'
    BY <1>1, <1>2, <1>7, <2>3, <2>4 DEF InOrder, OneEach
  <2>6. \A d \in DOMAIN codes[r] : codes[r][d].session \in DOMAIN handovers[r]
    BY <1>2 DEF QrInv, QrRows
  <2>7. Stands(r)'
    BY <1>1, <1>2, <1>4, <1>6, <1>7, <2>3, <2>4, <2>6 DEF InOrder, Stands
  <2> QED
    BY <2>1, <2>2, <2>5, <2>7 DEF InOrder
<1>8. Lasting /\ QrRows' /\ stranded \subseteq stranded'
  BY <1>1, <1>5 DEF Kept
<1>9. \A s \in Rentals \ {r} : codes'[s] = codes[s] /\ handovers'[s] = handovers[s]
  BY <1>1, <1>6
<1>10. (req[w].op = "scan" => req[w].r = r) /\ (Idle.op = "scan" => Idle.r = r)
  BY <1>r, <1>3
<1>11. r \in Rentals \ stranded' => InOrder(r)'
  BY <1>1, <1>7 DEF QrInv
<1> QED
  BY <1>1, <1>3, <1>8, <1>9, <1>10, <1>11, ScanMoves

\* The other steps of a scan.
LEMMA ScanReadStep ==
    ASSUME QrInv, NEW w \in Workers, NEW r \in Rentals, ScanRead(w, r)
    PROVE  QrInv'
<1>1. PICK c \in DOMAIN codes[r] :
         LET i == codes[r][c].session
         IN  Begin(w, [op |-> "claim", r |-> r, c |-> c, i |-> i,
                       type |-> handovers[r][i].type, status |-> status[r],
                       hasPayout |-> payout[r] # NoRow])
  BY DEF ScanRead
<1>i. PICK i : i = codes[r][c].session
  OBVIOUS
<1>q. PICK q : q = [op |-> "claim", r |-> r, c |-> c, i |-> i,
                    type |-> handovers[r][i].type, status |-> status[r],
                    hasPayout |-> payout[r] # NoRow]
  OBVIOUS
<1>2. req[w] = Idle /\ req' = [req EXCEPT ![w] = q]
  BY <1>1, <1>i, <1>q DEF Begin
<1>3. codes' = codes /\ handovers' = handovers /\ stranded' = stranded
  BY DEF ScanRead, tables, qrVars
<1>4. q.op = "claim" /\ q.r = r /\ q.c = c /\ q.i = i
  BY <1>q
<1>5. QrRequest(q)
  BY <1>4, <1>i DEF QrInv, QrRows, QrRequest
<1>6. Kept /\ QrRows'
  BY <1>3, RowsApart
<1>7. req[w].op # "scan" /\ q.op # "scan"
  BY <1>2, <1>4 DEF Idle
<1> QED
  BY <1>2, <1>3, <1>5, <1>6, <1>7, QrHandlerApart

\* A process that stops in the middle of a scan strands the rental.
LEMMA AbortStep ==
    ASSUME QrInv, NEW w \in Workers, ScanTooLate(w) \/ ScanAbort(w)
    PROVE  QrInv'
<1>1. codes' = codes /\ handovers' = handovers /\ req' = [req EXCEPT ![w] = Idle]
  BY DEF ScanTooLate, ScanAbort, Done, tables, qrVars
<1>2. QrRequest(Idle) /\ Idle.op # "scan"
  BY DEF QrRequest, Idle
<1>3. Kept /\ QrRows'
  BY <1>1, RowsApart
<1>4. stranded \subseteq stranded'
  BY DEF ScanTooLate, ScanAbort, qrVars
<1>5. CASE req[w].op # "scan"
  BY <1>1, <1>2, <1>3, <1>4, <1>5, QrHandlerApart
<1>6. CASE req[w].op = "scan"
  <2>r. PICK r : r = req[w].r
    OBVIOUS
  <2>1. r \in Rentals
    BY <1>6, <2>r DEF QrInv, QrRequest
  <2>2. r \in stranded'
    BY <1>6, <2>r, <2>1 DEF ScanTooLate, ScanAbort
  <2>3. Lasting
    BY <1>3 DEF Kept
  <2>4. \A s \in Rentals \ {r} : codes'[s] = codes[s] /\ handovers'[s] = handovers[s]
    BY <1>1
  <2>5. (req[w].op = "scan" => req[w].r = r) /\ (Idle.op = "scan" => Idle.r = r)
    BY <1>2, <2>r
  <2>6. r \in Rentals \ stranded' => InOrder(r)'
    BY <2>2
  <2> QED
    BY <1>1, <1>2, <1>3, <1>4, <2>3, <2>4, <2>5, <2>6, ScanMoves
<1> QED
  BY <1>5, <1>6

\* The requests of the other buttons, of the owner and of the renter.
LEMMA ButtonRead ==
    ASSUME QrInv, NEW w \in Workers, NEW r \in Rentals,
           \/ GenerateRead(w, r)
           \/ /\ StartHandoverRead(w, r) \/ ConfirmHandoverRead(w, r)
                 \/ RequestReturnRead(w, r)
              /\ UNCHANGED qrVars
    PROVE  QrInv'
<1>1. codes' = codes /\ handovers' = handovers /\ stranded' = stranded
  BY DEF GenerateRead, StartHandoverRead, ConfirmHandoverRead, RequestReturnRead,
         tables, qrVars
<1>2. Kept /\ QrRows'
  BY <1>1, RowsApart
<1>3. handovers[r] \in Seq(Handover)
  BY DEF QrInv, QrRows
<1>4. DOMAIN handovers[r] = 1 .. Len(handovers[r])
  BY <1>3
<1>5. PICK q : req[w] = Idle /\ req' = [req EXCEPT ![w] = q] /\ QrRequest(q) /\ q.op # "scan"
  <2>1. CASE GenerateRead(w, r)
    <3>1. PICK i \in 1 .. Len(handovers[r]) :
             Begin(w, [op |-> "retire", r |-> r, i |-> i])
      BY <2>1 DEF GenerateRead
    <3>q. PICK q : q = [op |-> "retire", r |-> r, i |-> i]
      OBVIOUS
    <3>2. req[w] = Idle /\ req' = [req EXCEPT ![w] = q]
      BY <3>1, <3>q DEF Begin
    <3>3. q.op = "retire" /\ q.r = r /\ q.i = i
      BY <3>q
    <3>4. QrRequest(q) /\ q.op # "scan"
      BY <1>4, <3>3 DEF QrRequest
    <3> QED
      BY <3>2, <3>4
  <2>2. CASE StartHandoverRead(w, r)
    <3>1. PICK type \in HandoverType :
             Begin(w, [op |-> "startHandover", r |-> r, type |-> type])
      BY <2>2 DEF StartHandoverRead
    <3>q. PICK q : q = [op |-> "startHandover", r |-> r, type |-> type]
      OBVIOUS
    <3>2. req[w] = Idle /\ req' = [req EXCEPT ![w] = q]
      BY <3>1, <3>q DEF Begin
    <3>3. q.op = "startHandover" /\ q.r = r /\ q.type = type
      BY <3>q
    <3>4. QrRequest(q) /\ q.op # "scan"
      BY <1>4, <3>3 DEF QrRequest
    <3> QED
      BY <3>2, <3>4
  <2>3. CASE ConfirmHandoverRead(w, r)
    <3>1. PICK i \in 1 .. Len(handovers[r]) :
             Begin(w, [op |-> "confirm", r |-> r, i |-> i,
                       type |-> handovers[r][i].type,
                       hasPayout |-> payout[r] # NoRow])
      BY <2>3 DEF ConfirmHandoverRead, Confirmable
    <3>q. PICK q : q = [op |-> "confirm", r |-> r, i |-> i,
                       type |-> handovers[r][i].type,
                       hasPayout |-> payout[r] # NoRow]
      OBVIOUS
    <3>2. req[w] = Idle /\ req' = [req EXCEPT ![w] = q]
      BY <3>1, <3>q DEF Begin
    <3>3. q.op = "confirm" /\ q.r = r /\ q.i = i
      BY <3>q
    <3>4. QrRequest(q) /\ q.op # "scan"
      BY <1>4, <3>3 DEF QrRequest
    <3> QED
      BY <3>2, <3>4
  <2>4. CASE RequestReturnRead(w, r)
    <3>1. Begin(w, [op |-> "requestReturn", r |-> r])
      BY <2>4 DEF RequestReturnRead
    <3>q. PICK q : q = [op |-> "requestReturn", r |-> r]
      OBVIOUS
    <3>2. req[w] = Idle /\ req' = [req EXCEPT ![w] = q]
      BY <3>1, <3>q DEF Begin
    <3>3. q.op = "requestReturn"
      BY <3>q
    <3>4. QrRequest(q) /\ q.op # "scan"
      BY <1>4, <3>3 DEF QrRequest
    <3> QED
      BY <3>2, <3>4
  <2> QED
    BY <2>1, <2>2, <2>3, <2>4
<1>6. req[w].op # "scan"
  BY <1>5 DEF Idle
<1> QED
  BY <1>1, <1>2, <1>5, <1>6, QrHandlerApart

\* Their transactions.
LEMMA ButtonCommit ==
    ASSUME QrInv, NEW w \in Workers, UNCHANGED qrVars,
           \/ StartHandoverCommit(w) \/ ConfirmHandoverCommit(w)
           \/ ConfirmHandoverConflict(w) \/ RequestReturnCommit(w)
    PROVE  QrInv'
<1>r. PICK r : r = req[w].r
  OBVIOUS
<1>i. PICK i : i = req[w].i
  OBVIOUS
<1>1. /\ codes' = codes /\ stranded' = stranded /\ req' = [req EXCEPT ![w] = Idle]
      /\ req[w].op # "scan"
  BY DEF StartHandoverCommit, ConfirmHandoverCommit, ConfirmHandoverConflict,
         RequestReturnCommit, Done, qrVars
<1>2. QrRequest(req[w])
  BY DEF QrInv
<1>3. Kept /\ QrRows'
  <2>1. CASE StartHandoverCommit(w)
    <3>n. PICK new : new = [type |-> req[w].type, status |-> "PENDING"]
      OBVIOUS
    <3>c. PICK rows : rows = Append(handovers[r], new)
      OBVIOUS
    <3>1. req[w].op = "startHandover" /\ handovers' = [handovers EXCEPT ![r] = rows]
      BY <1>r, <2>1, <3>n, <3>c DEF StartHandoverCommit
    <3>2. r \in Rentals /\ new \in Handover
      BY <1>2, <1>r, <3>1, <3>n DEF QrRequest, Handover
    <3>s. handovers[r] \in Seq(Handover)
      BY <3>2 DEF QrInv, QrRows
    <3>3. /\ rows \in Seq(Handover) /\ DOMAIN handovers[r] \subseteq DOMAIN rows
          /\ \A j \in DOMAIN handovers[r] : rows[j] = handovers[r][j]
      BY <3>c, <3>2, <3>s
    <3>4. \A j \in DOMAIN handovers[r] :
             handovers[r][j].status = "CONFIRMED" => rows[j].status = "CONFIRMED"
      BY <3>3
    <3> QED
      BY <1>1, <3>1, <3>2, <3>3, <3>4, SessionsApart
  <2>2. CASE ConfirmHandoverCommit(w)
    <3>1. /\ req[w].op = "confirm"
          /\ handovers' = [handovers EXCEPT ![r][i].status = "CONFIRMED"]
      BY <1>r, <1>i, <2>2 DEF ConfirmHandoverCommit
    <3>2. r \in Rentals /\ i \in DOMAIN handovers[r]
      BY <1>2, <1>r, <1>i, <3>1 DEF QrRequest
    <3>3. PICK rows \in Seq(Handover) :
             /\ handovers' = [handovers EXCEPT ![r] = rows]
             /\ DOMAIN rows = DOMAIN handovers[r]
             /\ rows[i].status = "CONFIRMED"
             /\ \A j \in DOMAIN handovers[r] \ {i} : rows[j] = handovers[r][j]
      BY <3>1, <3>2, Confirmed
    <3>4. \A j \in DOMAIN handovers[r] :
             handovers[r][j].status = "CONFIRMED" => rows[j].status = "CONFIRMED"
      BY <3>3
    <3>5. DOMAIN handovers[r] \subseteq DOMAIN rows
      BY <3>3
    <3> QED
      BY <1>1, <3>2, <3>3, <3>4, <3>5, SessionsApart
  <2>3. CASE ConfirmHandoverConflict(w) \/ RequestReturnCommit(w)
    <3>1. handovers' = handovers
      BY <2>3 DEF ConfirmHandoverConflict, RequestReturnCommit, tables
    <3> QED
      BY <1>1, <3>1, RowsApart
  <2> QED
    BY <2>1, <2>2, <2>3
<1>4. QrRequest(Idle) /\ Idle.op # "scan"
  BY DEF QrRequest, Idle
<1> QED
  BY <1>1, <1>3, <1>4, QrHandlerApart

LEMMA QrStepInv == QrInv /\ [QrNext]_<<tables, qrVars, req>> => QrInv'
<1> SUFFICES ASSUME QrInv, [QrNext]_<<tables, qrVars, req>> PROVE QrInv'
  OBVIOUS
<1>1. ASSUME NEW w \in Workers, GenerateRetire(w) \/ GenerateCreate(w) PROVE QrInv'
  BY <1>1, GenerateStep
<1>2. ASSUME NEW w \in Workers, ScanClaim(w) PROVE QrInv'
  BY <1>2, ClaimStep
<1>3. ASSUME NEW w \in Workers, ScanTooLate(w) \/ ScanAbort(w) PROVE QrInv'
  BY <1>3, AbortStep
<1>4. ASSUME NEW w \in Workers, ScanConfirm(w) PROVE QrInv'
  BY <1>4, ConfirmStep
<1>5. ASSUME NEW w \in Workers, ScanRelease(w) PROVE QrInv'
  BY <1>5, ReleaseStep
<1>6. ASSUME NEW w \in Workers, UNCHANGED qrVars,
             \/ StartHandoverCommit(w) \/ ConfirmHandoverCommit(w)
             \/ ConfirmHandoverConflict(w) \/ RequestReturnCommit(w)
      PROVE  QrInv'
  BY <1>6, ButtonCommit
<1>7. ASSUME NEW w \in Workers, NEW r \in Rentals,
             \/ GenerateRead(w, r)
             \/ /\ StartHandoverRead(w, r) \/ ConfirmHandoverRead(w, r)
                   \/ RequestReturnRead(w, r)
                /\ UNCHANGED qrVars
      PROVE  QrInv'
  BY <1>7, ButtonRead
<1>8. ASSUME NEW w \in Workers, NEW r \in Rentals, ScanRead(w, r) PROVE QrInv'
  BY <1>8, ScanReadStep
<1>9. ASSUME NEW r \in Rentals, CodeExpires(r) PROVE QrInv'
  BY <1>9, ExpiryStep
<1>10. CASE UNCHANGED <<tables, qrVars, req>>
  <2>1. codes' = codes /\ handovers' = handovers /\ stranded' = stranded /\ req' = req
    BY <1>10 DEF tables, qrVars
  <2>2. Kept /\ QrRows'
    BY <2>1, RowsApart
  <2>3. req' = [v \in Workers |-> req'[v]]
    BY <2>1 DEF QrInv
  <2> QED
    BY <2>1, <2>2, <2>3, QrApart
<1> QED
  BY <1>1, <1>2, <1>3, <1>4, <1>5, <1>6, <1>7, <1>8, <1>9, <1>10 DEF QrNext

LEMMA QrInitInv ==
    ASSUME handovers \in [Rentals -> Seq(Handover)], QrInit,
           req = [w \in Workers |-> Idle]
    PROVE  QrInv
<1>1. \A r \in Rentals : codes[r] = <<>> /\ DOMAIN codes[r] = {}
  BY DEF QrInit
<1>2. <<>> \in Seq(Code)
  OBVIOUS
<1>3. QrRows
  BY <1>1, <1>2 DEF QrRows, QrInit
<1>4. \A w \in Workers : req[w] = Idle /\ QrRequest(req[w]) /\ req[w].op # "scan"
  BY DEF Idle, QrRequest
<1>5. req = [w \in Workers |-> req[w]]
  OBVIOUS
<1>6. \A r \in Rentals : InOrder(r)
  BY <1>1, <1>4 DEF InOrder, InHand, Alone, OneEach, Stands
<1> QED
  BY <1>3, <1>4, <1>5, <1>6 DEF QrInv

\* A set of at most one code.
LEMMA AtMostOne ==
    ASSUME NEW S, \A c, d \in S : c = d
    PROVE  Cardinality(S) <= 1
<1>1. CASE S = {}
  <2>1. Cardinality(S) = 0
    BY <1>1, FS_EmptySet
  <2> QED
    BY <2>1
<1>2. CASE S # {}
  <2>1. PICK c : S = {c}
    BY <1>2
  <2>2. Cardinality(S) = 1
    BY <2>1, FS_Singleton
  <2> QED
    BY <2>2
<1> QED
  BY <1>1, <1>2

LEMMA QrHolds == QrInv => CodeSpentOnce
<1> SUFFICES ASSUME QrInv, NEW r \in Rentals \ stranded,
                    \A w \in Workers : req[w].op # "scan",
                    NEW i \in DOMAIN handovers[r]
             PROVE  /\ Cardinality(Spent(r, i)) <= 1
                    /\ Spent(r, i) # {} => handovers[r][i].status = "CONFIRMED"
  BY DEF CodeSpentOnce
<1>1. InOrder(r)
  BY DEF QrInv
<1>2. \A c : ~Scanned(r, c)
  BY DEF Scanned, Scans
<1>3. \A c \in Spent(r, i) : c \in DOMAIN codes[r] /\ Free(r, c) /\ codes[r][c].session = i
  BY <1>2 DEF Spent, Free
<1>4. \A c, d \in Spent(r, i) : c = d
  BY <1>1, <1>3 DEF InOrder, OneEach
<1>5. \A c \in Spent(r, i) : handovers[r][i].status = "CONFIRMED"
  BY <1>1, <1>3 DEF InOrder, Stands
<1> QED
  BY <1>4, <1>5, AtMostOne

\* Whatever sessions the rentals have and however the scans, the buttons, the
\* second codes and the minutes interleave: once no scan holds a code, a code
\* is spent for a confirmed session and a session by one code, except for the
\* rentals whose scan was cut off between its claim and its confirmation.
THEOREM Scan == QrSpec => []CodeSpentOnce
<1>1. QrSpec => QrInv /\ [][QrNext]_<<tables, qrVars, req>>
  BY QrInitInv DEF QrSpec
<1> QED
  BY <1>1, QrStepInv, QrHolds, PTL

============================================================================
