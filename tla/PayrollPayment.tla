--------------------------- MODULE PayrollPayment ---------------------------
(* The weekly pay of one maid: earnings that arrive in time or late, signed    *)
(* corrections and reversals in an append-only book, the weekly cycles that    *)
(* claim those amounts, the residual a week of negative pay leaves to the next *)
(* one, and the attempts to transfer what a cycle has locked.  Every command   *)
(* runs under the advisory lock `reservation-command`, so each is one step.    *)
(* What can go wrong is the order in which weeks, late earnings, corrections   *)
(* and transfer results are handled.                                           *)
(*                                                                             *)
(* A caller with an outdated version, an unauthorised one and a transfer       *)
(* reference that was used before are refused without a change.                *)
EXTENDS Integers, Sequences, FiniteSets, Functions

CONSTANTS
  Earnings,       \* ids of the cleanings that may be approved
  LastWeek,       \* bound: the last week of the model somebody works in
  Amounts,        \* what a cleaning may earn
  Corrections,    \* signed amounts an administrator corrects by
  MaxBook,        \* bound: entries of the book
  MaxAttempts     \* bound: transfers started for one week

ASSUME EarningsAreFinite == IsFiniteSet(Earnings)
ASSUME WeeksAreCounted == LastWeek \in Nat /\ LastWeek > 0
ASSUME EarningsAreNotNegative == Amounts \subseteq Nat
ASSUME CorrectionsAreSigned == Corrections \subseteq Int \ {0}
ASSUME BoundsAreCounted == MaxBook \in Nat /\ MaxAttempts \in Nat

VARIABLES
  today,    \* the current week: the ones before it are closed
  earned,   \* per earning: its week (0: not approved yet), amount, payroll item
  book,     \* the adjustments of the maid, in the order of the book's versions
  cycle,    \* per week: status, locked amount, payment attempts
  carry     \* per week: the residual carried into it from the week before

vars == <<today, earned, book, cycle, carry>>

Weeks == 1..(LastWeek + 1)

Earning == [week : 0..LastWeek, amount : Nat, claimed : BOOLEAN]
Adjustment == [reason : {"correction", "reversal", "late"}, root : Earnings,
               of : Nat,          \* the adjustment it corrects, 0 for the earning
               week : Weeks, amount : Int, claimed : BOOLEAN]
Attempt == [amount : Int, result : {"started", "check", "paid", "reopened"}]
Cycle == [status : {"open", "paying", "check", "paid", "settled"},
          locked : Int,           \* 0: nothing is locked
          tries : Nat,            \* number of the newest attempt
          attempts : Seq(Attempt)]
Carry == [amount : Nat, claimed : BOOLEAN]

NoCarry == [amount |-> 0, claimed |-> FALSE]

(***************************************************************************)
(* What the rows say.  A week without a cycle row is treated by every       *)
(* command like one whose row is open, so both are "open" here; "settled"   *)
(* is an open row with offset_settled_at.                                   *)
(***************************************************************************)
Frozen(w) == cycle[w].status # "open"
Uncertain(w) == cycle[w].status \in {"paying", "check"}
Final(w) == cycle[w].status \in {"paid", "settled"}

Carried(e) == \E i \in DOMAIN book : book[i].reason = "late" /\ book[i].root = e

\* An earning no cycle has claimed and no entry of the book has carried on.
Unhandled(e) == earned[e].amount > 0 /\ ~earned[e].claimed /\ ~Carried(e)

Regular(b) == {i \in DOMAIN b : b[i].reason # "late"}

\* What an earning amounts to with its corrections and reversals.
Entitlement(e) ==
  earned[e].amount +
    SumFunction([i \in {j \in Regular(book) : book[j].root = e} |-> book[i].amount])

(***************************************************************************)
(* The items of a cycle and what they come to                              *)
(***************************************************************************)
EarningItems(es, w) ==
  [e \in {x \in Earnings : es[x].claimed /\ es[x].week = w} |-> es[e].amount]
AdjustmentItems(b, w) ==
  [i \in {x \in DOMAIN b : b[x].claimed /\ b[x].week = w} |-> b[i].amount]
CarryItem(c, w) == IF c[w].claimed THEN c[w].amount ELSE 0

Payable(es, b, c, w) ==
  SumFunction(EarningItems(es, w)) + SumFunction(AdjustmentItems(b, w)) - CarryItem(c, w)

\* A cycle claims every amount of its week that has no item yet.
ClaimEarnings(w) ==
  [e \in Earnings |->
    [earned[e] EXCEPT !.claimed = @ \/ (earned[e].week = w /\ Unhandled(e))]]
ClaimBook(w) ==
  [i \in DOMAIN book |-> [book[i] EXCEPT !.claimed = @ \/ book[i].week = w]]
ClaimCarry(w) ==
  [carry EXCEPT ![w] = [amount |-> @.amount, claimed |-> @.claimed \/ @.amount > 0]]

PayableNow(w) == Payable(ClaimEarnings(w), ClaimBook(w), ClaimCarry(w), w)

(***************************************************************************)
(* Earnings arrive                                                         *)
(***************************************************************************)
\* Neither the week of the earning nor the next one could take it any more.
Stranded(w) == Frozen(w) /\ Frozen(w + 1)

\* An approval (CleaningWork) writes the earning of a cleaning completed in the
\* week w, which may be long over.
EarningArrives(e, w, amount) ==
  /\ earned[e].week = 0 /\ w <= today
  /\ amount > 0 => ~Stranded(w)
  /\ earned' = [earned EXCEPT ![e] = [week |-> w, amount |-> amount, claimed |-> FALSE]]
  /\ UNCHANGED <<today, book, cycle, carry>>

WeekEnds ==
  /\ today <= LastWeek
  /\ today' = today + 1
  /\ UNCHANGED <<earned, book, cycle, carry>>

(***************************************************************************)
(* The book of adjustments                                                 *)
(***************************************************************************)
\* The first week from the source's own that is still open; the command is
\* refused when a week whose transfer is uncertain lies before it.
AvailableWeek(from, w) == from <= w /\ ~Frozen(w) /\ \A v \in from..(w - 1) : Final(v)

EarningSources ==
  {[root |-> e, of |-> 0, week |-> earned[e].week, amount |-> earned[e].amount] :
     e \in {x \in Earnings : earned[x].week > 0}}
AdjustmentSources ==
  {[root |-> book[i].root, of |-> i, week |-> book[i].week, amount |-> book[i].amount] :
     i \in Regular(book)}
Sources == EarningSources \cup AdjustmentSources

Entry(reason, s, w, amount) ==
  [reason |-> reason, root |-> s.root, of |-> s.of, week |-> w, amount |-> amount, claimed |-> FALSE]

\* What is left of an earning never falls below zero.
Enter(reason, s, w, amount) ==
  /\ Len(book) < MaxBook
  /\ AvailableWeek(s.week, w)
  /\ Entitlement(s.root) + amount >= 0
  /\ book' = Append(book, Entry(reason, s, w, amount))
  /\ UNCHANGED <<today, earned, cycle, carry>>

RecordCorrection(s, w, amount) == Enter("correction", s, w, amount)

Reversed(s) ==
  \E i \in DOMAIN book : book[i].reason = "reversal" /\ book[i].root = s.root /\ book[i].of = s.of

ReverseSource(s, w) ==
  /\ s.amount # 0 /\ ~Reversed(s)
  /\ Enter("reversal", s, w, -s.amount)

\* An earning that came too late for its own week is paid in the next one.
CarryLateEarning(e) ==
  LET w == earned[e].week
  IN /\ Len(book) < MaxBook
     /\ w > 0 /\ Unhandled(e) /\ Final(w) /\ ~Frozen(w + 1)
     /\ book' = Append(book, [reason |-> "late", root |-> e, of |-> 0, week |-> w + 1,
                              amount |-> earned[e].amount, claimed |-> FALSE])
     /\ UNCHANGED <<today, earned, cycle, carry>>

(***************************************************************************)
(* Weekly cycles                                                           *)
(***************************************************************************)
\* Slip: looks for late earnings of weeks already paid only.
LateHandledSlip(w) ==
  w > 1 /\ Final(w - 1) => \A e \in Earnings : earned[e].week = w - 1 => ~Unhandled(e)

\* Late earnings of the week before must have been carried into this one.
LateHandled(w) ==
  w > 1 /\ Frozen(w - 1) => \A e \in Earnings : earned[e].week = w - 1 => ~Unhandled(e)

NoEarlierCarry(w) == \A v \in 1..(w - 1) : carry[v].amount = 0 \/ carry[v].claimed

\* Slip: the offset a settled week was closed with is not looked at.
ProcessableSlip(w) ==
  w < today /\ cycle[w].status \in {"open", "settled"} /\ NoEarlierCarry(w) /\ LateHandled(w)

\* A closed week whose cycle is open and not settled, when it is its turn.
Processable(w) == w < today /\ ~Frozen(w) /\ NoEarlierCarry(w) /\ LateHandled(w)

NextAttempt(w, amount) ==
  [i \in 1..(cycle[w].tries + 1) |->
     IF i <= cycle[w].tries THEN cycle[w].attempts[i]
     ELSE [amount |-> amount, result |-> "started"]]

StartPayment(w) ==
  /\ Processable(w) /\ cycle[w].tries < MaxAttempts
  /\ PayableNow(w) > 0
  /\ earned' = ClaimEarnings(w) /\ book' = ClaimBook(w) /\ carry' = ClaimCarry(w)
  /\ cycle' = [cycle EXCEPT ![w] =
       [status |-> "paying", locked |-> PayableNow(w), tries |-> @.tries + 1,
        attempts |-> NextAttempt(w, PayableNow(w))]]
  /\ UNCHANGED today

\* Slip: the residual is not written.
ResidualLost(w) == ClaimCarry(w)

\* A negative rest is carried into the week after.
Residual(w) ==
  IF PayableNow(w) < 0
  THEN [ClaimCarry(w) EXCEPT ![w + 1] = [amount |-> -PayableNow(w), claimed |-> FALSE]]
  ELSE ClaimCarry(w)

CarryForward(w) ==
  /\ Processable(w)
  /\ PayableNow(w) <= 0
  /\ earned' = ClaimEarnings(w) /\ book' = ClaimBook(w) /\ carry' = Residual(w)
  /\ cycle' = [cycle EXCEPT ![w] =
       [status |-> "settled", locked |-> 0, tries |-> @.tries, attempts |-> @.attempts]]
  /\ UNCHANGED today

(***************************************************************************)
(* The result of a transfer, as an administrator attests it                *)
(***************************************************************************)
\* Slip: any attempt of the week will do.
CurrentSlip(w, i) == cycle[w].attempts[i].result # "paid"

\* The newest attempt of its week, and not concluded.
Current(w, i) ==
  i = cycle[w].tries /\ cycle[w].attempts[i].result \notin {"paid", "reopened"}

Concluded(w, i, result) ==
  [cycle[w].attempts EXCEPT ![i] = [amount |-> @.amount, result |-> result]]

Conclude(w, i, status, locked, result) ==
  /\ Current(w, i)
  /\ cycle[w].locked = cycle[w].attempts[i].amount
  /\ cycle' = [cycle EXCEPT ![w] =
       [status |-> status, locked |-> locked, tries |-> @.tries,
        attempts |-> Concluded(w, i, result)]]
  /\ UNCHANGED <<today, earned, book, carry>>

RecordCheck(w, i) ==
  /\ cycle[w].status = "paying"
  /\ Conclude(w, i, "check", cycle[w].locked, "check")

RecordPaid(w, i) ==
  /\ Uncertain(w) /\ cycle[w].locked > 0
  /\ Payable(earned, book, carry, w) = cycle[w].attempts[i].amount
  /\ Conclude(w, i, "paid", cycle[w].locked, "paid")

\* No money left: the week is open again and keeps its items.
ReopenAttempt(w, i) ==
  /\ Uncertain(w)
  /\ Conclude(w, i, "open", 0, "reopened")

(***************************************************************************)
(* Specification                                                           *)
(***************************************************************************)
Init ==
  /\ today = 1
  /\ earned = [e \in Earnings |-> [week |-> 0, amount |-> 0, claimed |-> FALSE]]
  /\ book = <<>>
  /\ cycle = [w \in Weeks |-> [status |-> "open", locked |-> 0, tries |-> 0, attempts |-> <<>>]]
  /\ carry = [w \in Weeks |-> NoCarry]

BookEntry ==
  \/ \E s \in Sources, w \in Weeks, amount \in Corrections : RecordCorrection(s, w, amount)
  \/ \E s \in Sources, w \in Weeks : ReverseSource(s, w)
  \/ \E e \in Earnings : CarryLateEarning(e)

Transfer(w) ==
  \E i \in 1..cycle[w].tries :
    RecordCheck(w, i) \/ RecordPaid(w, i) \/ ReopenAttempt(w, i)

Next ==
  \/ WeekEnds
  \/ \E e \in Earnings, w \in 1..LastWeek, amount \in Amounts : EarningArrives(e, w, amount)
  \/ BookEntry
  \/ \E w \in Weeks : StartPayment(w) \/ CarryForward(w) \/ Transfer(w)

Spec == Init /\ [][Next]_vars

(***************************************************************************)
(* Properties                                                              *)
(***************************************************************************)
TypeOK ==
  /\ today \in Weeks
  /\ earned \in [Earnings -> Earning]
  /\ book \in Seq(Adjustment)
  /\ cycle \in [Weeks -> Cycle]
  /\ carry \in [Weeks -> Carry]

Held == SumFunction([w \in {v \in Weeks : ~Final(v)} |-> Payable(earned, book, carry, w)])
PaidOut ==
  SumFunction([w \in {v \in Weeks : cycle[v].status = "paid"} |-> cycle[w].locked])
Waiting ==
  SumFunction([e \in {x \in Earnings : Unhandled(x)} |-> earned[e].amount])
    + SumFunction([i \in {x \in DOMAIN book : ~book[x].claimed} |-> book[i].amount])
    - SumFunction([w \in {v \in Weeks : ~carry[v].claimed} |-> carry[w].amount])

\* What the maid earned, corrections and reversals included, is at every moment
\* what she was paid, plus what a cycle holds, plus what waits for one: no order
\* of claims, late carries, settlements and reopened transfers pays an amount
\* twice or loses it (payroll_adjustments.sql:433-466, 950-1031).
MoneyIsConserved ==
  SumFunction([e \in Earnings |-> Entitlement(e)]) = PaidOut + Held + Waiting

\* An earning is either an item of its week or carried once, and whatever has no
\* item yet can still get one: the week of an adjustment is open, and of the two
\* weeks that can take an earning one is.
EveryAmountHasItsPlace ==
  /\ \A e \in Earnings : earned[e].claimed => ~Carried(e)
  /\ \A i, j \in DOMAIN book :
       book[i].reason = "late" /\ book[j].reason = "late" /\ book[i].root = book[j].root => i = j
  /\ \A i \in DOMAIN book : ~book[i].claimed => ~Frozen(book[i].week)
  /\ \A e \in Earnings : Unhandled(e) => ~Stranded(earned[e].week)

\* The state of a week is the result of its newest transfer, every older one was
\* reopened, and what was locked for it is still what its items come to, however
\* many corrections and late earnings arrived since.
LockFollowsItsAttempt ==
  \A w \in Weeks :
    LET c == cycle[w]
        n == c.tries
        payable == Payable(earned, book, carry, w)
    IN /\ \A i \in 1..(n - 1) : c.attempts[i].result = "reopened"
       /\ c.status \in {"paying", "check", "paid"} =>
            /\ n > 0 /\ c.locked > 0
            /\ c.attempts[n] = [amount |-> payable, result |->
                 IF c.status = "paying" THEN "started" ELSE c.status]
            /\ c.locked = payable
       /\ c.status \in {"open", "settled"} =>
            c.locked = 0 /\ (n > 0 => c.attempts[n].result = "reopened")
       /\ c.status = "settled" => payable <= 0

\* A paid or settled week never changes again, and neither do its items.
FinalIsFinal ==
  [][\A w \in Weeks : Final(w) =>
       /\ cycle'[w] = cycle[w]
       /\ EarningItems(earned', w) = EarningItems(earned, w)
       /\ AdjustmentItems(book', w) = AdjustmentItems(book, w)
       /\ CarryItem(carry', w) = CarryItem(carry, w)]_vars

\* The residual of a settled week is offset in the following one
\* (src/supabase/tests/payroll_adjustments.sql:194): that week is not closed to it.
CarryFindsItsWeek ==
  \A w \in Weeks : carry[w].amount > 0 /\ ~carry[w].claimed => ~Final(w)
=============================================================================
