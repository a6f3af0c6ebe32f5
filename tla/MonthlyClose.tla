------------------------------ MODULE MonthlyClose ------------------------------
(***************************************************************************)
(* The close of one month for one person's seat of one account: runs draw a  *)
(* statement per company from the register and the rates, statements become   *)
(* final, and the vendor's invoice is reconciled with them.  Meanwhile the     *)
(* seat changes hands and the rates are edited.                               *)
(*                                                                           *)
(* Runs, finalisations and reconciliations of a month exclude each other (one *)
(* advisory lock); the register is locked by nobody, and the rates only while  *)
(* a run or a finalisation reads them (the row of the account).               *)
(***************************************************************************)
EXTENDS Integers, FiniteSets, FiniteSetsExt

CONSTANTS
  Organizations, \* companies
  MonthDays,   \* the days of the month are 1..MonthDays
  Runs,        \* close runs
  RateIds,     \* rate cards of the account
  RateRows,    \* the rows users give to a rate card: [from, to, price], price in cents
  Invoices     \* amounts of the vendor's invoice, in cents

NotYet  == "none"
NoRun   == 0
Month   == 1..MonthDays
Forever == MonthDays + 2
NoRate  == [from |-> 0, to |-> -1, price |-> 0]

ASSUME CloseAssumption ==
  /\ IsFiniteSet(Organizations) /\ IsFiniteSet(RateIds)
  /\ MonthDays \in Nat \ {0} /\ NoRun \notin Runs /\ Invoices \subseteq Nat
  /\ RateRows \subseteq [from : Int, to : Int, price : Nat]

VARIABLES
  day,        \* the operating day; MonthDays + 1 stands for the days after the month
  eager,      \* are months closed before they end in this behaviour?
  register,   \* license_assignment: rows [company, from, to]
  rate,       \* rate_card
  run,        \* close_run.status; "lost": running for ever, the process died
  closing,    \* the run that holds the lock of the month
  snapshot,   \* the register as that run read it
  statement,  \* statement and its lines
  recon       \* reconciliation of the account

closeVars == <<day, eager, register, rate, run, closing, snapshot, statement, recon>>

-------------------------------------------------------------------------------
(* computeLicenseClose *)

Least(m, n)    == IF m <= n THEN m ELSE n
Greatest(m, n) == IF m >= n THEN m ELSE n
Meet(s, t)     == s.from <= t.to /\ t.from <= s.to

\* Mutant: the day after is charged too.
LastDayLate(s) == Least(s.to + 1, MonthDays)

LastDay(s) == Least(s.to, MonthDays)

\* A seat in the month, one piece per rate.
Pieces(seats, rates) ==
  {p \in {[company |-> s.company, rate |-> i, from |-> Greatest(s.from, rates[i].from),
           to |-> Least(LastDay(s), rates[i].to)] : s \in seats, i \in RateIds} :
     p.from <= p.to}

DaysOf(p) == p.to - p.from + 1

Round(n) == (2 * n + MonthDays) \div (2 * MonthDays)

\* Mutant: every piece is rounded on its own.
AmountAlone(p, pieces, rates) == Round(rates[p.rate].price * DaysOf(p))

\* Cumulative rounding: the cents of the days so far less those of the days before.
Amount(p, pieces, rates) ==
  LET before == MapThenSumSet(DaysOf, {q \in pieces : q.rate = p.rate /\ q.from < p.from})
      price  == rates[p.rate].price
  IN Round(price * (before + DaysOf(p))) - Round(price * before)

Lines(seats, rates) ==
  LET pieces == Pieces(seats, rates)
  IN {[company |-> p.company, from |-> p.from, to |-> p.to, price |-> rates[p.rate].price,
       amount |-> Amount(p, pieces, rates)] : p \in pieces}

\* CLOSE_RATE_COVERAGE: every day of a seat in the month has a rate.
Covered(seats, rates) ==
  \A s \in seats : \A d \in s.from..LastDay(s) : \E i \in RateIds : d \in rates[i].from..rates[i].to

-------------------------------------------------------------------------------

NoStatement == [status |-> NotYet, lines |-> {}]

LineType == [company : Organizations, from : Month, to : Month, price : Nat, amount : Nat]

Final(c) == statement[c].status = "final"
FinalLines == UNION {statement[c].lines : c \in {c \in Organizations : Final(c)}}

AmountOf(l) == l.amount
Total(lines) == MapThenSumSet(AmountOf, lines)

CloseTypeOK ==
  /\ day \in 1..MonthDays + 1 /\ eager \in BOOLEAN
  /\ \A s \in register \cup snapshot : /\ s.company \in Organizations
                                       /\ s.from \in 1..MonthDays + 1
                                       /\ s.to \in s.from..Forever
  /\ rate \in [RateIds -> RateRows \cup {NoRate}]
  /\ run \in [Runs -> {NotYet, "running", "succeeded", "failed", "lost"}]
  /\ closing \in Runs \cup {NoRun}
  /\ closing # NoRun => run[closing] = "running"
  /\ \A c \in Organizations : /\ statement[c].status \in {NotYet, "draft", "final"}
                          /\ statement[c].lines \subseteq LineType
  /\ recon.status \in {NotYet, "open", "reconciled", "overridden"}
  /\ recon.rollup \in Nat /\ recon.invoice \in Invoices \cup {-1}

-------------------------------------------------------------------------------
(* The register *)

Current == {s \in register : s.to = Forever}

\* A seat is taken, or an old one is brought into the register.
TakeSeat(c, d) ==
  /\ d <= day /\ \A s \in register : s.to < d
  /\ register' = register \cup {[company |-> c, from |-> d, to |-> Forever]}
  /\ UNCHANGED <<day, eager, rate, run, closing, snapshot, statement, recon>>

\* The holder moves to another company: update, moving.
MoveSeat(c) ==
  \E s \in Current :
    /\ s.company # c /\ s.from < day
    /\ register' = (register \ {s}) \cup {[s EXCEPT !.to = day - 1],
                                          [company |-> c, from |-> day, to |-> Forever]}
    /\ UNCHANGED <<day, eager, rate, run, closing, snapshot, statement, recon>>

\* The seat is given up today.
EndSeat ==
  \E s \in Current :
    /\ register' = (register \ {s}) \cup {[s EXCEPT !.to = day]}
    /\ UNCHANGED <<day, eager, rate, run, closing, snapshot, statement, recon>>

-------------------------------------------------------------------------------
(* Rates *)

\* rate_card_is_locked: a final line falls into the dates of the rate.
RateLocked(i) == \E l \in FinalLines : Meet(l, rate[i])

\* saveRateCard: a new row, or an edit of one that no final statement consumed;
\* the rates of an account never overlap.
SaveRate(i, r) ==
  /\ ~RateLocked(i)
  /\ \A j \in RateIds \ {i} : ~Meet(r, rate[j])
  /\ rate' = [rate EXCEPT ![i] = r]
  /\ UNCHANGED <<day, eager, register, run, closing, snapshot, statement, recon>>

-------------------------------------------------------------------------------
(* Close runs *)

StartRun(r) ==
  /\ run[r] = NotYet
  /\ eager \/ day > MonthDays
  /\ run' = [run EXCEPT ![r] = "running"]
  /\ UNCHANGED <<day, eager, register, rate, closing, snapshot, statement, recon>>

\* The run takes the lock of the month and reads the register.
ReadRegister(r) ==
  /\ run[r] = "running" /\ closing = NoRun
  /\ closing' = r
  /\ snapshot' = {s \in register : s.from <= MonthDays}
  /\ UNCHANGED <<day, eager, register, rate, run, statement, recon>>

Release == closing' = NoRun /\ snapshot' = {}

\* Mutant: a run replaces every statement.
RewritableAlways(c) == TRUE

Rewritable(c) == statement[c].status # "final"

\* It locks the account, reads the rates, and replaces the drafts and their lines.
Draw(r) ==
  /\ closing = r /\ Covered(snapshot, rate)
  /\ LET lines == Lines(snapshot, rate) IN
     statement' = [c \in Organizations |->
       IF Rewritable(c)
         THEN [status |-> "draft", lines |-> {l \in lines : l.company = c}]
         ELSE statement[c]]
  /\ run' = [run EXCEPT ![r] = "succeeded"]
  /\ Release
  /\ UNCHANGED <<day, eager, register, rate, recon>>

\* A day without a rate: everything is rolled back, and the run is marked.
FailRun(r) ==
  /\ closing = r /\ ~Covered(snapshot, rate)
  /\ run' = [run EXCEPT ![r] = "failed"]
  /\ Release
  /\ UNCHANGED <<day, eager, register, rate, statement, recon>>

\* The process dies: its transaction is rolled back.
LoseRun(r) ==
  /\ run[r] = "running"
  /\ run' = [run EXCEPT ![r] = "lost"]
  /\ IF closing = r THEN Release ELSE UNCHANGED <<closing, snapshot>>
  /\ UNCHANGED <<day, eager, register, rate, statement, recon>>

-------------------------------------------------------------------------------
(* Finalisation *)

\* A line's dates have one rate, and it still has the line's price.
Priced(l) == \E i \in RateIds : /\ rate[i].price = l.price
                                /\ rate[i].from <= l.from /\ l.to <= rate[i].to

\* finalizeStatement, finalizeStatements: all of them or none (STATEMENT_RATES_CHANGED).
Finalize(S) ==
  /\ closing = NoRun
  /\ LET drafts == {c \in S : statement[c].status = "draft"} IN
     /\ drafts # {}
     /\ \A c \in drafts : \A l \in statement[c].lines : Priced(l)
     /\ statement' = [c \in Organizations |->
          IF c \in drafts THEN [statement[c] EXCEPT !.status = "final"] ELSE statement[c]]
  /\ UNCHANGED <<day, eager, register, rate, run, closing, snapshot, recon>>

-------------------------------------------------------------------------------
(* Reconciliation *)

\* Mutant: drafts are reconciled too.
FinishedAnyway == \E c \in Organizations : statement[c].lines # {}

\* organizations: the account has lines, and those that have are final.
Finished ==
  /\ \E c \in Organizations : statement[c].lines # {}
  /\ \A c \in Organizations : statement[c].lines # {} => Final(c)

Rollup == Total(UNION {statement[c].lines : c \in Organizations})

\* compareInvoice: half a percent of the invoice.
WithinTolerance(rollup, invoice) ==
  Greatest(rollup - invoice, invoice - rollup) * 200 <= invoice

Unsettled == closing = NoRun /\ recon.status \in {NotYet, "open"} /\ Finished

SaveInvoice(billed) ==
  /\ Unsettled
  /\ recon' = [status |-> IF WithinTolerance(Rollup, billed) THEN "reconciled" ELSE "open",
               rollup |-> Rollup, invoice |-> billed]
  /\ UNCHANGED <<day, eager, register, rate, run, closing, snapshot, statement>>

Override ==
  /\ Unsettled
  /\ recon.status = "open" /\ ~WithinTolerance(Rollup, recon.invoice)
  /\ recon' = [recon EXCEPT !.status = "overridden", !.rollup = Rollup]
  /\ UNCHANGED <<day, eager, register, rate, run, closing, snapshot, statement>>

NextDay ==
  /\ day <= MonthDays                                  \* bound: one day after the month
  /\ day' = day + 1
  /\ UNCHANGED <<eager, register, rate, run, closing, snapshot, statement, recon>>

-------------------------------------------------------------------------------

CloseInit ==
  /\ day = 1 /\ eager \in BOOLEAN
  /\ register = {}
  /\ rate \in [RateIds -> RateRows \cup {NoRate}]
  /\ \A i, j \in RateIds : i # j => ~Meet(rate[i], rate[j])
  /\ run = [r \in Runs |-> NotYet] /\ closing = NoRun /\ snapshot = {}
  /\ statement = [c \in Organizations |-> NoStatement]
  /\ recon = [status |-> NotYet, rollup |-> 0, invoice |-> -1]

CloseNext ==
  \/ \E c \in Organizations : \/ \E d \in 1..MonthDays + 1 : TakeSeat(c, d)
                          \/ MoveSeat(c)
  \/ EndSeat \/ NextDay
  \/ \E i \in RateIds, r \in RateRows : SaveRate(i, r)
  \/ \E r \in Runs : StartRun(r) \/ ReadRegister(r) \/ Draw(r) \/ FailRun(r) \/ LoseRun(r)
  \/ \E c \in Organizations : Finalize({c})
  \/ Finalize(Organizations)
  \/ \E billed \in Invoices : SaveInvoice(billed)
  \/ Override

CloseSpec == CloseInit /\ [][CloseNext]_closeVars

-------------------------------------------------------------------------------

\* BR-18, BR-21: a final statement never changes again, although runs that read the
\* register before it became final may still be under way; and the rates it was
\* drawn with stand: rates edited between the draft and its finalisation, or after
\* it, never leave it unexplained.
FinalsStand ==
  [][/\ \A c \in Organizations : Final(c) => statement'[c] = statement[c]
     /\ \A l \in FinalLines' : Priced(l)']_closeVars

\* BR-17: statements of months that have ended never charge a day of the seat to
\* two companies, whatever happened to the seat and however often it was closed.
DayChargedOnce ==
  ~eager => \A c, e \in Organizations : \A k \in statement[e].lines, l \in statement[c].lines :
              Meet(k, l) => k = l

\* BR-17: what a run draws charges every day a company held the seat, once, to that
\* company, and the cents of the pieces of a rate are those of the unsplit charge.
SplitIsExact ==
  Covered(register, rate) =>
    LET lines == Lines(register, rate) IN
    /\ \A c \in Organizations, d \in Month :
         Cardinality({l \in lines : l.company = c /\ d \in l.from..l.to})
           = IF \E s \in register : s.company = c /\ d \in s.from..s.to THEN 1 ELSE 0
    /\ \A i \in RateIds :
         LET mine == {l \in lines : l.from \in rate[i].from..rate[i].to}
         IN Total(mine) = Round(rate[i].price * MapThenSumSet(DaysOf, mine))

\* BR-20: what an invoice was reconciled with stays billed: the final statements
\* never add up to less (to more they may, when a company had no lines yet).
RollupStands ==
  recon.status \in {"reconciled", "overridden"} => recon.rollup <= Total(FinalLines)
=================================================================================
