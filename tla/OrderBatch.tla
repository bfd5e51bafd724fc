-------------------------------- MODULE OrderBatch --------------------------------
(* The order import and report of examples/runtime-bench: a batch is validated     *)
(* record by record into a summary, and the accepted orders are folded into        *)
(* totals by month, customer and product.  Money is in cents, rates are in basis   *)
(* points, and every line is rounded on its own.                                   *)
EXTENDS Integers, Sequences, SequencesExt, FiniteSets, Functions

CONSTANTS Orders,      \* decoded orders, and NotAnOrder
          NotAnOrder,
          Catalog,     \* [sku -> unit price]
          Months, Customers,
          MaxErrors,   \* errors kept in a summary (20)
          Top,         \* customers kept in a report (10)
          MaxRecords   \* bound: records of a batch

Skus == DOMAIN Catalog

OrderAssumption == MaxErrors \in Nat \ {0} /\ Top \in Nat /\ MaxRecords \in Nat

VARIABLES batch, next, ids, accepted, summary, report

vars == <<batch, next, ids, accepted, summary, report>>

Zero == [totalRecords |-> 0, acceptedRecords |-> 0, rejectedRecords |-> 0, acceptedLines |-> 0, totalUnits |-> 0,
         subtotalCents |-> 0, discountCents |-> 0, taxCents |-> 0, shippingCents |-> 0, totalCents |-> 0,
         errors |-> <<>>]
NoReport == <<>>

Init ==
  /\ batch = <<>> /\ next = 0 /\ ids = {} /\ accepted = <<>>
  /\ summary = Zero /\ report = NoReport

-----------------------------------------------------------------------------
Sum(xs) == FoldLeft(+, 0, xs)
\* Math.round(cents * rate / 10000): halves are rounded up.
Rate(cents, rate) == (2 * cents * rate + 10000) \div 20000

Gross(line) == line.quantity * line.unitPriceCents
Discount(line) == Rate(Gross(line), line.discountBasisPoints)
Each(lines, Of(_)) == Sum([i \in DOMAIN lines |-> Of(lines[i])])
Quantity(line) == line.quantity

Tax(o) == Rate(Each(o.lines, Gross) - Each(o.lines, Discount), o.taxBasisPoints)
Total(o) == Each(o.lines, Gross) - Each(o.lines, Discount) + Tax(o) + o.shippingCents

(* The first line that the catalog does not know, or knows at another price, says *)
(* which of the two it is.                                                        *)
LineIssue(o) ==
  LET bad == {i \in DOMAIN o.lines :
                o.lines[i].sku \notin Skus \/ Catalog[o.lines[i].sku] # o.lines[i].unitPriceCents}
      first == CHOOSE i \in bad : \A j \in bad : i <= j
  IN IF bad = {} THEN "none"
     ELSE IF o.lines[first].sku \notin Skus THEN "unknown-sku" ELSE "price-mismatch"

Issue(o, seen) ==
  IF o = NotAnOrder THEN "invalid-order"
  ELSE IF o.id \in seen THEN "duplicate-order"
  ELSE IF LineIssue(o) # "none" THEN LineIssue(o)
  ELSE IF o.totalCents # Total(o) THEN "total-mismatch" ELSE "none"

-----------------------------------------------------------------------------
(* validate: a batch that does not parse ends with one error and no records. *)
Malformed ==
  /\ next = 0
  /\ summary' = [Zero EXCEPT !.errors = <<[index |-> -1, code |-> "invalid-json"]>>]
  /\ next' = 1
  /\ UNCHANGED <<batch, ids, accepted, report>>

Import(records) ==
  /\ next = 0
  /\ batch' = records /\ next' = 1
  /\ summary' = [Zero EXCEPT !.totalRecords = Len(records)]
  /\ UNCHANGED <<ids, accepted, report>>

Reject(s, issue) ==
  [s EXCEPT !.rejectedRecords = @ + 1,
            !.errors = IF Len(@) < MaxErrors THEN Append(@, issue) ELSE @]

\* A mutant: shipping is in an order's total and not in the summary's shipping.
AcceptFreeShipping(s, o) ==
  [s EXCEPT !.acceptedRecords = @ + 1, !.acceptedLines = @ + Len(o.lines),
            !.totalUnits = @ + Each(o.lines, Quantity),
            !.subtotalCents = @ + Each(o.lines, Gross), !.discountCents = @ + Each(o.lines, Discount),
            !.taxCents = @ + Tax(o), !.totalCents = @ + Total(o)]
Accept(s, o) ==
  [s EXCEPT !.acceptedRecords = @ + 1, !.acceptedLines = @ + Len(o.lines),
            !.totalUnits = @ + Each(o.lines, Quantity),
            !.subtotalCents = @ + Each(o.lines, Gross), !.discountCents = @ + Each(o.lines, Discount),
            !.taxCents = @ + Tax(o), !.shippingCents = @ + o.shippingCents, !.totalCents = @ + Total(o)]

\* A mutant: only accepted orders take their id.
TakenWhenAccepted(o) == IF o = NotAnOrder \/ Issue(o, ids) # "none" THEN {} ELSE {o.id}
\* An id is taken by its first well-formed record, accepted or not.
Taken(o) == IF o = NotAnOrder THEN {} ELSE {o.id}

Record ==
  /\ next \in DOMAIN batch
  /\ LET o == batch[next]
         issue == Issue(o, ids)
     IN /\ ids' = ids \cup Taken(o)
        /\ IF issue = "none"
           THEN accepted' = Append(accepted, o) /\ summary' = Accept(summary, o)
           ELSE /\ summary' = Reject(summary, [index |-> next - 1, code |-> issue])
                /\ UNCHANGED accepted
  /\ next' = next + 1
  /\ UNCHANGED <<batch, report>>

-----------------------------------------------------------------------------
(* summarize. *)

Add(totals, key, orders, cents) ==
  [totals EXCEPT ![key] = [orders |-> @.orders + orders, cents |-> @.cents + cents]]
Empty(keys) == [k \in keys |-> [orders |-> 0, cents |-> 0]]

Lines(os) == FlattenSeq([i \in DOMAIN os |-> os[i].lines])
\* A mutant: a product's discount is rounded over all of its lines.
NetOfSum(line, cents) == cents + Gross(line) - (Gross(line) * line.discountBasisPoints) \div 10000
Net(line, cents) == cents + Gross(line) - Discount(line)

ByMonth(os) == FoldLeft(LAMBDA t, o : Add(t, o.month, 1, o.totalCents), Empty(Months), os)
ByCustomer(os) == FoldLeft(LAMBDA t, o : Add(t, o.customer, 1, o.totalCents), Empty(Customers), os)
ByProduct(os) ==
  FoldLeft(LAMBDA t, line : [t EXCEPT ![line.sku] = [orders |-> @.orders + line.quantity, cents |-> Net(line, @.cents)]],
           Empty(Skus), Lines(os))

\* A mutant: equal customers are left in the order of their first order.
BeforeByTotal(t, a, b) == t[a].cents >= t[b].cents
\* Larger totals first, equal ones by key.
Before(t, a, b) == t[a].cents > t[b].cents \/ (t[a].cents = t[b].cents /\ a < b)
Known(t) == {k \in DOMAIN t : t[k].orders > 0}
Sorted(t) == SetToSortSeq(Known(t), LAMBDA a, b : Before(t, a, b))

Summarize ==
  /\ next > Len(batch) /\ next > 0 /\ report = NoReport
  /\ report' = <<[months |-> ByMonth(accepted),
                  topCustomers |-> SubSeq(Sorted(ByCustomer(accepted)), 1,
                                          IF Cardinality(Known(ByCustomer(accepted))) < Top
                                          THEN Cardinality(Known(ByCustomer(accepted))) ELSE Top),
                  products |-> ByProduct(accepted)]>>
  /\ UNCHANGED <<batch, next, ids, accepted, summary>>

Batches == SeqOf(Orders, MaxRecords)
Next == Malformed \/ Record \/ Summarize \/ \E b \in Batches : Import(b)

Spec == Init /\ [][Next]_vars

-----------------------------------------------------------------------------
(* Counts add up at every record, the kept errors are those of the first rejected *)
(* records, in order, and a full list of errors does not stop the counting.       *)
TypeOK ==
  /\ next \in Nat /\ accepted \in Seq(Orders)
  /\ summary.acceptedRecords = Len(accepted)
  /\ next > 1 => summary.acceptedRecords + summary.rejectedRecords = IF batch = <<>> THEN 0 ELSE next - 1
  /\ Len(summary.errors) <= MaxErrors

(* Of the records with one id, at most the first is accepted: a corrected copy    *)
(* later in the batch is a duplicate, whatever was wrong with the first.          *)
FirstRecordDecides ==
  \A i \in DOMAIN accepted :
    LET id == accepted[i].id
        named == {j \in DOMAIN batch : batch[j] # NotAnOrder /\ batch[j].id = id}
    IN /\ accepted[i] = batch[CHOOSE j \in named : \A k \in named : j <= k]
       /\ \A k \in DOMAIN accepted : accepted[k].id = id => k = i

(* The order's own total is what the summary adds up: no cent is lost or made by  *)
(* rounding, and the total is the sum of its parts.                               *)
CentsAddUp ==
  /\ summary.totalCents = Sum([i \in DOMAIN accepted |-> accepted[i].totalCents])
  /\ summary.totalCents = summary.subtotalCents - summary.discountCents + summary.taxCents + summary.shippingCents

SumOver(t, Of(_)) == FoldFunction(LAMBDA x, acc : acc + Of(x), 0, t)
OfCents(x) == x.cents
OfOrders(x) == x.orders

(* The invariants that the fixtures' manifest states of every report: months add  *)
(* up to the batch's total, products to the subtotal less the discount.           *)
ReportAddsUp ==
  report # NoReport =>
    /\ SumOver(report[1].months, OfCents) = summary.totalCents
    /\ SumOver(report[1].months, OfOrders) = summary.acceptedRecords
    /\ SumOver(report[1].products, OfCents) = summary.subtotalCents - summary.discountCents
    /\ SumOver(report[1].products, OfOrders) = summary.totalUnits

Spent(c) == Sum([i \in DOMAIN accepted |-> IF accepted[i].customer = c THEN accepted[i].totalCents ELSE 0])

(* The top customers are the ones that spent most, and the choice among equals    *)
(* does not depend on the order of the batch.                                     *)
TopCustomersAreTop ==
  report # NoReport =>
    LET top == report[1].topCustomers IN
    \A i \in DOMAIN top : \A c \in {o.customer : o \in ToSet(accepted)} \ ToSet(SubSeq(top, 1, i)) :
      Spent(c) < Spent(top[i]) \/ (Spent(c) = Spent(top[i]) /\ top[i] < c)
=============================================================================
