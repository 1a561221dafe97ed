------------------------------ MODULE Pricing ------------------------------
(***************************************************************************)
(* The price of one booking, from the booking screen to the payout: what   *)
(* the screen quotes, rentals.service.ts computes and stores, the payment  *)
(* asks, the contract states and the owner receives, while the owner edits *)
(* the listing's price and an administrator the percentages.               *)
(***************************************************************************)
EXTENDS Api

CONSTANTS
    Prices,         \* prices per day an owner sets
    Percents,       \* values of platform_fee_percent, owner_commission_percent
    MinDays, MaxDays    \* the listing's minimum and maximum duration

\* a percentage is what env.validation.ts, requirePercent, takes for one;
\* updateSystemConfig does not look, and beyond it the payout is negative
ASSUME TariffAssumption ==
    /\ Prices \subseteq Nat \ {0}
    /\ Percents \subseteq 0 .. 100
    /\ MinDays \in Nat \ {0}
    /\ MaxDays \in Nat \ {0}

VARIABLES
    tariff,     \* assets.price_per_day and the two percentages configured
    form,       \* the booking screen: the price it loaded, and the period
                \* chosen, as whole days and whether it is longer than them
    bill,       \* what the rental row says, and what the screen quoted
    charge,     \* payments.amount
    deal        \* what the settlement wrote: payout and contract

pricingVars == <<tariff, form, bill, charge, deal>>

NoForm == [price |-> 0, days |-> 0, longer |-> FALSE]
NoBill == [days |-> 0, rentalFee |-> 0, serviceFee |-> 0, total |-> 0,
           shown |-> NoForm, quote |-> 0, asShown |-> FALSE]
NoCharge == 0
NoDeal == [gross |-> 0]

PricingInit ==
    /\ tariff \in [price : Prices, fee : Percents, commission : Percents]
    /\ form = NoForm
    /\ bill = NoBill
    /\ charge = NoCharge
    /\ deal = NoDeal

\* Math.round of a percentage of an amount
Percentage(amount, percent) == (2 * amount * percent + 100) \div 200

\* assets.update and updateSystemConfig
ChangeTariff ==
    /\ \/ \E price \in Prices : tariff' = [tariff EXCEPT !.price = price]
       \/ \E percent \in Percents :
             \/ tariff' = [tariff EXCEPT !.fee = percent]
             \/ tariff' = [tariff EXCEPT !.commission = percent]
    /\ UNCHANGED <<form, bill, charge, deal, req>>

----------------------------------------------------------------------------
(* app/asset/[id]/book.tsx: three days to begin with, and a quote with a   *)
(* fee of five percent, whatever is configured.  Both ends of the first    *)
(* period come from a clock of their own and may be milliseconds apart.    *)
OpenForm ==
    /\ form = NoForm
    /\ \E longer \in BOOLEAN :
          form' = [price |-> tariff.price, days |-> 3, longer |-> longer]
    /\ UNCHANGED <<tariff, bill, charge, deal, req>>

\* the screen rounds the period down, the service up
DaysShown(period) == IF period.days = 0 THEN 1 ELSE period.days
DaysBilled(period) == IF period.longer THEN period.days + 1 ELSE period.days

Clamped(days) ==
    IF days < MinDays THEN MinDays ELSE IF days > MaxDays THEN MaxDays ELSE days

\* a period chosen by the buttons is one of whole days
ChangeDuration ==
    /\ form # NoForm
    /\ \E step \in {-1, 1} :
          form' = [form EXCEPT !.days = Clamped(DaysShown(form) + step), !.longer = FALSE]
    /\ UNCHANGED <<tariff, bill, charge, deal, req>>

Quote ==
    LET subtotal == form.price * DaysShown(form)
    IN  subtotal + Percentage(subtotal, 5)

----------------------------------------------------------------------------
(* create reads the listing, then the percentage, then writes the row.     *)
BookRead(w) ==
    /\ form # NoForm
    /\ bill = NoBill
    /\ DaysBilled(form) \in MinDays .. MaxDays
    /\ Begin(w, [op |-> "book", days |-> DaysBilled(form),
                 rentalFee |-> tariff.price * DaysBilled(form),
                 shown |-> form, quote |-> Quote,
                 samePrice |-> tariff.price = form.price])
    /\ UNCHANGED pricingVars

BookPriced(w) ==
    /\ req[w].op = "book"
    /\ Continue(w, [op |-> "priced", days |-> req[w].days, rentalFee |-> req[w].rentalFee,
                    serviceFee |-> Percentage(req[w].rentalFee, tariff.fee),
                    shown |-> req[w].shown, quote |-> req[w].quote,
                    asShown |-> req[w].samePrice /\ tariff.fee = 5])
    /\ UNCHANGED pricingVars

BookCommit(w) ==
    /\ req[w].op = "priced"
    /\ bill = NoBill
    /\ bill' = [days |-> req[w].days,
                rentalFee |-> req[w].rentalFee, serviceFee |-> req[w].serviceFee,
                total |-> req[w].rentalFee + req[w].serviceFee,
                shown |-> req[w].shown, quote |-> req[w].quote,
                asShown |-> req[w].asShown]
    /\ Done(w)
    /\ UNCHANGED <<tariff, form, charge, deal>>

\* the other of two requests of one press finds the period taken
BookRefused(w) ==
    /\ req[w].op = "priced"
    /\ bill # NoBill
    /\ Done(w)
    /\ UNCHANGED pricingVars

\* wrong variant: the intent prices the rental again
AmountToday == bill.rentalFee + Percentage(bill.rentalFee, tariff.fee)

AmountDue == bill.total

\* getPaymentIntent after the owner's approval
AskPayment(w) ==
    /\ AtOnce(w)
    /\ bill # NoBill
    /\ charge = NoCharge
    /\ charge' = AmountDue
    /\ UNCHANGED <<tariff, form, bill, deal>>

\* settleVerifiedPayment computes the commission before its transaction
CommissionRead(w) ==
    /\ charge # NoCharge
    /\ deal = NoDeal
    /\ Begin(w, [op |-> "charge",
                 commission |-> Percentage(bill.rentalFee, tariff.commission)])
    /\ UNCHANGED pricingVars

ChargeCommit(w) ==
    /\ req[w].op = "charge"
    /\ deal = NoDeal
    /\ charge = bill.total
    /\ deal' = [gross |-> bill.rentalFee, commission |-> req[w].commission,
                net |-> bill.rentalFee - req[w].commission,
                contract |-> [rentalFee |-> bill.rentalFee, total |-> bill.total]]
    /\ Done(w)
    /\ UNCHANGED <<tariff, form, bill, charge>>

\* settled already, or the amount is not the rental's
ChargeSkip(w) ==
    /\ req[w].op = "charge"
    /\ deal # NoDeal \/ charge # bill.total
    /\ Done(w)
    /\ UNCHANGED pricingVars

PricingNext ==
    \/ ChangeTariff \/ OpenForm \/ ChangeDuration
    \/ \E w \in Workers :
          \/ BookRead(w) \/ BookPriced(w) \/ BookCommit(w) \/ BookRefused(w)
          \/ AskPayment(w)
          \/ CommissionRead(w) \/ ChargeCommit(w) \/ ChargeSkip(w)

PricingSpec ==
    /\ PricingInit
    /\ req = [w \in Workers |-> Idle]
    /\ [][PricingNext]_<<pricingVars, req>>

\* One booking has one price (checklist PAY-01, ADMIN-09), but for the day the
\* two roundings can differ by: the row is for the days the screen showed, or
\* for one more when the period was longer than whole days; when they are the
\* same, and price and fee were those the screen counted with, the row's total
\* is the quote.  From the row on nothing differs: the payment asks, and the
\* fees and the total the contract states and the payout divides are, the
\* amounts of the row, whatever became of the price and the percentages since.
OnePrice ==
    /\ bill # NoBill =>
          /\ \/ bill.days = DaysShown(bill.shown)
             \/ bill.days = DaysShown(bill.shown) + 1 /\ bill.shown.longer
          /\ bill.asShown /\ bill.days = DaysShown(bill.shown) => bill.total = bill.quote
          /\ bill.total = bill.rentalFee + bill.serviceFee
    /\ charge # NoCharge => charge = bill.total
    /\ deal # NoDeal =>
          /\ deal.contract = [rentalFee |-> bill.rentalFee, total |-> charge]
          /\ deal.commission + deal.net = bill.rentalFee
          /\ deal.net >= 0

============================================================================
