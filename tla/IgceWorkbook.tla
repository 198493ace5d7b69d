---------------------------- MODULE IgceWorkbook ----------------------------
(***************************************************************************)
(* The workbook of an Independent Government Cost Estimate                 *)
(* (document-generation/igce-document.ts): a sheet for each period, with a *)
(* row for each line item and below them a line for each CLIN, and a       *)
(* summary that looks the CLINs up in the sheets of the periods.           *)
(*                                                                         *)
(* A sheet is given by the values a spreadsheet program computes from the  *)
(* formulas that the code writes.  A CLIN is [code, padded]: the payload   *)
(* may have spaces around it, and text that differs in them is different   *)
(* to SUMIF and VLOOKUP.  An estimate is a sequence of [type, order,       *)
(* items], one for each period, each item [clin, contract, price,          *)
(* quantity], with the shop, its fee and the surge as percentages.         *)
(***************************************************************************)
EXTENDS Integers, ArrayMethods

CONSTANTS InitialRows,   \* the rows for line items in the template of a sheet
          ClinLines,     \* the lines for CLINs in the template of a sheet
          SummaryLines,  \* the lines for CLINs in the template of the summary
          OptionSheets   \* the sheets for option periods in the template

ASSUME IgceAssumption ==
  /\ InitialRows \in Nat \ {0} /\ ClinLines \in Nat \ {0}
  /\ SummaryLines \in Nat \ {0} /\ OptionSheets \in Nat \ {0}

\* Rows of a period's sheet: the first row of line items, and the first CLIN line
\* of the template, which follows the line items directly.
TopStartRow == 8
BottomStartRow == TopStartRow + InitialRows

Plus(sum, v) == sum + v

SumOf(values) == FoldLeft(Plus, 0, values)

\* A line item, with CLINs ordered as localeCompare orders them.
IsItem(item) ==
  item.clin \in [code : Nat, padded : BOOLEAN] /\ item.price \in Nat /\ item.quantity \in Nat

\* An estimate of the payload: one entry for each of some periods.
IsEstimate(estimate) ==
  /\ IsArray(estimate.periods)
  /\ \A i, j \in DOMAIN estimate.periods : estimate.periods[i].order = estimate.periods[j].order => i = j
  /\ \A period \in ToSet(estimate.periods) :
       /\ period.type \in {"BASE", "OPTION"} /\ period.order \in Nat \ {0}
       /\ period.type = "BASE" <=> period.order = 1
       /\ IsArray(period.items)
       /\ \A item \in ToSet(period.items) : IsItem(item)
  /\ estimate.surge \in Nat /\ estimate.fee \in Nat /\ estimate.ditco \in BOOLEAN

Trim(clin) == [clin EXCEPT !.padded = FALSE]

\* The order of localeCompare, in which trailing spaces come last; the line items of
\* one CLIN may come in any order.
ClinBefore(a, b) == a.code < b.code \/ (a.code = b.code /\ (b.padded \/ ~a.padded))

ByOrder(periods) == Sorted(periods, LAMBDA a, b : a.order <= b.order)

\* uniqueCLINwithContract: every CLIN once, with the last of the contracts that the
\* periods, by their order, give it.
ContractClins(estimate) ==
  LET ItemClins(period) ==
        [i \in DOMAIN period.items |->
           [clin |-> Trim(period.items[i].clin), contract |-> period.items[i].contract]]
      ordered == ByOrder(estimate.periods)
      helper == FlattenSeq([p \in DOMAIN ordered |-> ItemClins(ordered[p])])
      clins == Sorted(Distinct([i \in DOMAIN helper |-> helper[i].clin]), ClinBefore)
  IN [c \in DOMAIN clins |->
        helper[SelectLastInSeq(helper, LAMBDA item : item.clin = clins[c])]]

-----------------------------------------------------------------------------
\* Sheet 0 stands for "Base Period", sheet k for "Option Period k".
SheetOf(period) == IF period.type = "BASE" THEN 0 ELSE period.order - 1

RowsToAdd(items) == IF Len(items) > InitialRows THEN Len(items) - InitialRows ELSE 0

\* Mutant: the range of the lines ends one line early.
ShortLineRange(start) == start..(start + ClinLines - 2)

\* The row of the first CLIN line.
ClinStart(items) == BottomStartRow + RowsToAdd(items)

\* The rows of periodCellSummaryCalculation and of the total of a sheet.
LineRange(start) == start..(start + ClinLines - 1)

Cost(item) == item.price * item.quantity

ByClin(items) == Sorted(items, LAMBDA a, b : ClinBefore(a.clin, b.clin))

\* uniqueIdiqClins
UniqueClins(items) == Distinct([i \in DOMAIN items |-> items[i].clin])

\* SUMIF over the line items, of which those in the rows above a line count.
SumIf(items, clin, line) ==
  SumOf([i \in DOMAIN items |->
           IF TopStartRow + i - 1 < line /\ items[i].clin = clin THEN Cost(items[i]) ELSE 0])

\* populatePeriodLineItems: the line items, each in the row it is written to; the
\* CLIN lines, with the sum over the line items of that CLIN that stand above them;
\* and the total of the lines in their range, below which no formula reads a line.
PeriodSheet(period) ==
  LET items == ByClin(period.items)
      start == ClinStart(items)
      clins == UniqueClins(items)
      Value(c) == SumIf(items, clins[c], start)
  IN [sheet |-> SheetOf(period),
      rows |-> [r \in TopStartRow..(TopStartRow + Len(items) - 1) |-> items[r - TopStartRow + 1]],
      lines |-> [r \in start..(start + Len(clins) - 1) |->
                   [clin |-> clins[r - start + 1], value |-> Value(r - start + 1)]],
      range |-> LineRange(start),
      total |-> SumOf([c \in DOMAIN clins |-> IF start + c - 1 \in LineRange(start) THEN Value(c) ELSE 0])]

\* The base period comes first, then the option periods in their order.
PeriodSheets(estimate) ==
  LET bases == Filter(estimate.periods, LAMBDA p : p.type = "BASE")
      options == ByOrder(Filter(estimate.periods, LAMBDA p : p.type = "OPTION"))
      ordered == bases \o options
  IN [p \in DOMAIN ordered |-> PeriodSheet(ordered[p])]

\* IFERROR(VLOOKUP(clin, range of the sheet, 9, FALSE), 0)
LookUp(clin, sheet) ==
  LET found == {r \in DOMAIN sheet.lines \cap sheet.range : sheet.lines[r].clin = clin}
  IN IF found = {} THEN 0 ELSE sheet.lines[CHOOSE r \in found : \A q \in found : r <= q].value

\* What stands below the lines for CLINs in the summary, counted from its first line (row
\* 6): the subtotal (row 22 of the template), the surge (23), the total price (24), and
\* the fees of the ordering agency (25) and of the shop (27) and the grand total (28).
Below == [subtotal |-> SummaryLines + 1, surge |-> SummaryLines + 2, total |-> SummaryLines + 3,
          agency |-> SummaryLines + 4, shop |-> SummaryLines + 6, grand |-> SummaryLines + 7]

\* A number in a cell for a CLIN, which VLOOKUP finds in no sheet.
Percentage == [code |-> -1, padded |-> FALSE]

\* The rows of the summary: each CLIN with its contract and its amount in each of the
\* sheets that the summary has a column for.  No row is inserted for them: what is
\* written to the cells of the surge (A23), the agency (A25), the shop (C27) and the
\* grand total (C28) later replaces the CLIN or contract of a row that reaches so far.
RowsOver(clins, sheets, estimate) ==
  LET Sheet(s) == sheets[SelectInSeq(sheets, LAMBDA x : x.sheet = s)]
      shown == {sheets[i].sheet : i \in DOMAIN sheets} \cap 0..OptionSheets
      Amounts(clin) == [s \in shown |-> LookUp(clin, Sheet(s))]
      A(c) == IF c = Below.surge \/ (c = Below.agency /\ ~estimate.ditco) THEN Percentage ELSE clins[c].clin
      C(c) == IF c = Below.grand \/ (c = Below.shop /\ estimate.fee # 0) THEN "formula" ELSE clins[c].contract
  IN [c \in DOMAIN clins |-> [clin |-> A(c), contract |-> C(c), amounts |-> Amounts(A(c))]]

SummaryRows(estimate) == RowsOver(ContractClins(estimate), PeriodSheets(estimate), estimate)

\* A period without a sheet in the template, or a summary without a base period,
\* ends the generation with a TypeError.
WorkbookFails(estimate) ==
  \/ \E i \in DOMAIN estimate.periods : SheetOf(estimate.periods[i]) \notin 0..OptionSheets
  \/ /\ ContractClins(estimate) # <<>>
     /\ \A i \in DOMAIN estimate.periods : estimate.periods[i].type # "BASE"

-----------------------------------------------------------------------------
\* The value of a formula over text.
NoValue == -1

\* The grand total (C28), in millionths.  The template has the subtotal of the lines for
\* CLINs (K22), the surge on it (K23) and the total price (K24), each as a sum over the
\* columns, of which those without a period add nothing; a row that reaches so far has
\* its own amounts in the place of the formulas.  The code adds the fee of the ordering
\* agency, one per cent unless the shop is DITCO (K25), and the fee of the shop on both
\* (C27), whose cell keeps what it has if there is no fee.
TotalWithFees(rows, estimate) ==
  LET Row(r) == LET sheets == SetToSeq(DOMAIN r.amounts)
                IN SumOf([i \in DOMAIN sheets |-> r.amounts[sheets[i]]])
      K22 == IF Below.subtotal \in DOMAIN rows THEN Row(rows[Below.subtotal])
             ELSE SumOf([c \in DOMAIN rows |-> Row(rows[c])])
      K23 == IF Below.surge \in DOMAIN rows THEN Row(rows[Below.surge]) * 100 ELSE K22 * estimate.surge
      K24 == IF Below.total \in DOMAIN rows THEN Row(rows[Below.total]) * 100 ELSE K22 * 100 + K23
      K25 == IF estimate.ditco THEN 0 ELSE K24
      C27 == IF estimate.ditco THEN K24 * 100 * estimate.fee ELSE (K24 * 100 + K25) * estimate.fee
  IN IF Below.shop \in DOMAIN rows /\ estimate.fee = 0 THEN NoValue
     ELSE C27 + K24 * 10000 + K25 * 100

GrandTotal(estimate) == TotalWithFees(SummaryRows(estimate), estimate)

\* generateIGCEDocument
Workbook(estimate) ==
  [sheets |-> PeriodSheets(estimate), summary |-> SummaryRows(estimate),
   grandTotal |-> GrandTotal(estimate)]
=============================================================================
