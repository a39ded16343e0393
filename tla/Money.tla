------------------------------- MODULE Money --------------------------------
(***************************************************************************)
(* The arithmetic of service drafts and assessments.  Quantities are       *)
(* natural numbers of thousandths, amounts of cents (halalas): the decimal *)
(* strings and NUMERIC columns of the code hold exactly these.  The same   *)
(* amount is computed in Python, in PostgreSQL's checks and in the page,   *)
(* each in its own way.                                                    *)
(***************************************************************************)
EXTENDS Integers

(* Decimal.quantize with ROUND_HALF_UP: p / d in whole units.               *)
HalfUp(p, d) == p \div d + (IF 2 * (p % d) >= d THEN 1 ELSE 0)

(* round(numeric) of PostgreSQL: the nearest unit, ties away from zero.     *)
SqlRound(p, d) ==
  LET q == p \div d
  IN IF p - q * d < (q + 1) * d - p THEN q ELSE q + 1

line_amount(mills, cents) == HalfUp(mills * cents, 1000)
SqlLineTotal(mills, cents) == SqlRound(mills * cents, 1000)

(* The page's BigInt arithmetic; first a variant without its half, for the  *)
(* mutant runs.                                                             *)
draftLineTruncated(mills, cents) == (mills * cents) \div 1000
draftLineCents(mills, cents) == (mills * cents + 500) \div 1000

(* 15 per cent of a whole category, rounded once.                           *)
standard_vat(taxable) == (taxable * 15 + 50) \div 100
SqlStandardVat(net) == SqlRound(net * 15, 100)
=============================================================================
