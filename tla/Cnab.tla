------------------------------- MODULE Cnab -------------------------------
(***************************************************************************)
(* The CNAB 240 exchange with Itau (banks/itau/cnab): the encoder writes   *)
(* fixed width records one by one, the bank copies the segments A into a   *)
(* return file with its occurrence codes in the last ten bytes, the        *)
(* decoder cuts the records at byte offsets of its own.  A record is the   *)
(* sequence of its cells: only the cells that somebody reads again carry a *)
(* value, and the strings that the encoder does not pad have the width     *)
(* that its caller gave them.                                              *)
(***************************************************************************)
EXTENDS Integers, Sequences

CONSTANTS
  Payments,
  OurNumber,     \* per payment: its external id after PadRightAlpha(.., 20), not unique
  Amount,        \* per payment: cents
  DocumentType,  \* per payment: the width of the document type, "" or "2" or longer
  HeaderWidths,  \* the widths that Service and Forma together may have
  AmountCeiling, \* the first amount of one digit too many: 10^15
  Codes,         \* the occurrence codes this instance's bank uses
  MaxCodes       \* bound: codes in one field (the field has room for five)

ASSUME CnabAssumption ==
  /\ Amount \in [Payments -> Nat \ {0}]
  /\ DocumentType \in [Payments -> Nat]
  /\ HeaderWidths \subseteq Nat
  /\ AmountCeiling \in Nat \ {0}
  /\ MaxCodes \in 0..5

VARIABLES
  file,     \* the remessa
  forma,    \* the width of the batch header's Service and Forma
  orders,   \* the payments handed to the encoder: the k-th has sequence number k
  returned, \* the bank's return file
  answers,  \* what the bank answered, in the order of the return
  next,     \* the line of it that Decode reads next
  rows,     \* Return.Lines
  stage

cnabVars == <<file, forma, orders, returned, answers, next, rows, stage>>

LineWidth == 240

\* What nobody reads: neighbouring fields are one cell, as wide as all of them.
Cell(w) == [width |-> w, read |-> FALSE, num |-> 0, text |-> "", codes |-> <<>>]
Text(t, w) == [Cell(w) EXCEPT !.read = TRUE, !.text = t]

\* PadLeftNum keeps the last w digits, of an amount too.
Num(n, w) ==
  [Cell(w) EXCEPT !.read = TRUE, !.num = n % (IF w = 15 THEN AmountCeiling ELSE 10^w)]

\* A record: its width, and at which bytes the cells lie that somebody reads.
Placed(c, from) ==
  [from |-> from, to |-> from + c.width, num |-> c.num, text |-> c.text, codes |-> c.codes]
Record(cells) ==
  LET end[i \in 0..Len(cells)] == IF i = 0 THEN 0 ELSE end[i - 1] + cells[i].width
  IN [width |-> end[Len(cells)],
      cells |-> {Placed(cells[i], end[i - 1]) : i \in {j \in 1..Len(cells) : cells[j].read}}]

\* What bytes from..to-1 hold; Garbled stands for what a cut elsewhere reads.
Garbled == [Placed(Text("garbled", 0), 0) EXCEPT !.num = 0 - 1, !.codes = <<"garbled">>]
Slice(record, from, to) ==
  LET S == {c \in record.cells : c.from = from /\ c.to = to} IN
  IF S = {} THEN Garbled ELSE CHOOSE c \in S : TRUE
ReadNum(record, from, to) == Slice(record, from, to).num
ReadString(record, from, to) == Slice(record, from, to).text

-----------------------------------------------------------------------------
(* encoder.go.  Bytes are counted from 1 in the comments, as there.        *)

FileHeader == Record(<<Cell(7), Text("0", 1), Cell(232)>>)

BatchHeader(batch, w) == \* Service and Forma as they come: 010-013 when w = 4
  Record(<<Cell(3), Num(batch, 4), Text("1", 1), Cell(1 + w + 227)>>)

SegmentA_NoAgencyDigit(batch, s) == \* mutant: the blank after the agency left out, one more at the end
  Record(<<Cell(3), Num(batch, 4), Text("3", 1), Num(s.sequence, 5), Text("A", 1), Cell(55),
           Text(s.ourNumber, 20), Cell(29), Num(s.amount, 15), Cell(107)>>)

SegmentA(batch, s) ==
  Record(<<Cell(3), Num(batch, 4), Text("3", 1), Num(s.sequence, 5), Text("A", 1),
           Cell(56),              \* 015-070
           Text(s.ourNumber, 20), \* 071-090
           Cell(29),              \* 091-119
           Num(s.amount, 15),     \* 120-134
           Cell(106)>>)           \* 135-240

SegmentB_LongCep(batch, s) == \* mutant: eight digits of the CEP, its complement left out
  Record(<<Cell(3), Num(batch, 4), Text("3", 1), Num(s.sequence, 5), Text("B", 1),
           Cell(3 + s.documentType + 222 + 3)>>)

SegmentB(batch, s) == \* the document type as it comes: 018 when it is one byte
  Record(<<Cell(3), Num(batch, 4), Text("3", 1), Num(s.sequence, 5), Text("B", 1),
           Cell(3 + s.documentType + 222)>>)

BatchTrailer(batch, count) == \* nobody reads the total
  Record(<<Cell(3), Num(batch, 4), Text("5", 1), Cell(9), Num(count, 6), Cell(217)>>)

FileTrailer(batches, count) ==
  Record(<<Cell(3), Num(9999, 4), Text("9", 1), Cell(9), Num(batches, 6), Num(count, 6),
           Cell(211)>>)

\* The records go one by one: the first that is not 240 wide is refused, and
\* the caller gives the file up with what is in it; after the last, goes on.
writeLines(lines, then) ==
  \E n \in 0..Len(lines) :
    /\ \A i \in 1..n : lines[i].width = LineWidth
    /\ n < Len(lines) => lines[n + 1].width # LineWidth
    /\ file' = file \o SubSeq(lines, 1, n)
    /\ stage' = IF n < Len(lines) THEN "stopped" ELSE then

-----------------------------------------------------------------------------
(* The exchange.  No code of the repository drives it yet: the steps       *)
(* follow the decoder's round trip test.                                   *)

CnabInit ==
  /\ file = <<>> /\ forma = 0 /\ orders = <<>>
  /\ returned = <<>> /\ answers = <<>> /\ next = 1 /\ rows = <<>>
  /\ stage = "open"

Open(w) ==
  /\ stage = "open"
  /\ forma' = w
  /\ writeLines(<<FileHeader, BatchHeader(1, w)>>, "write")
  /\ UNCHANGED <<orders, returned, answers, next, rows>>

WritePayment(p) ==
  LET s == [sequence |-> Len(orders) + 1, ourNumber |-> OurNumber[p], amount |-> Amount[p],
            documentType |-> DocumentType[p]] IN
  /\ stage = "write" /\ \A k \in 1..Len(orders) : orders[k] # p
  /\ orders' = Append(orders, p)
  /\ writeLines(<<SegmentA(1, s), SegmentB(1, s)>>, "write")
  /\ UNCHANGED <<forma, returned, answers, next, rows>>

WriteTrailers ==
  /\ stage = "write" /\ orders # <<>>
  /\ writeLines(<<BatchTrailer(1, Len(file) + 1), FileTrailer(1, Len(file) + 2)>>, "bank")
  /\ UNCHANGED <<forma, orders, returned, answers, next, rows>>

\* The bank answers some orders, in any order: the last ten bytes are its codes.
Answered(line, codes) ==
  [line EXCEPT !.cells = {c \in @ : c.to <= 230} \cup
                         {[Placed(Cell(10), 230) EXCEPT !.codes = codes]}]

Fields == UNION {[1..n -> Codes] : n \in 0..MaxCodes}

\* After the two headers the segments of the k-th order are lines 2k+1 and 2k+2.
BankAnswers(k, codes) ==
  /\ stage = "bank"
  /\ \A j \in 1..Len(answers) : answers[j].order # k
  /\ answers' = Append(answers, [order |-> k, codes |-> codes])
  /\ returned' = returned \o <<Answered(file[2 * k + 1], codes), file[2 * k + 2]>>
  /\ UNCHANGED <<file, forma, orders, next, rows, stage>>

BankSends ==
  /\ stage = "bank"
  /\ returned' = <<file[1]>> \o returned \o <<file[Len(file)]>>
  /\ stage' = "decode"
  /\ UNCHANGED <<file, forma, orders, answers, next, rows>>

ReturnLine(line) ==
  [batch |-> ReadNum(line, 3, 7), sequence |-> ReadNum(line, 8, 13),
   ourNumber |-> ReadString(line, 70, 90), amount |-> ReadNum(line, 119, 134),
   codes |-> Slice(line, 230, 240).codes]

\* One turn of Decode's loop: the rows are the segments A, everything else is skipped.
Decode ==
  /\ stage = "decode" /\ next <= Len(returned)
  /\ IF returned[next].width # LineWidth
       THEN stage' = "stopped" /\ UNCHANGED <<next, rows>>
       ELSE /\ next' = next + 1
            /\ rows' = IF ReadString(returned[next], 7, 8) = "3"
                          /\ ReadString(returned[next], 13, 14) = "A"
                         THEN Append(rows, ReturnLine(returned[next]))
                         ELSE rows
            /\ UNCHANGED stage
  /\ UNCHANGED <<file, forma, orders, returned, answers>>

CnabNext ==
  \/ \E w \in HeaderWidths : Open(w)
  \/ \E p \in Payments : WritePayment(p)
  \/ \E k \in 1..Len(orders), codes \in Fields : BankAnswers(k, codes)
  \/ WriteTrailers \/ BankSends \/ Decode

CnabSpec == CnabInit /\ [][CnabNext]_cnabVars

Done == stage = "decode" /\ next > Len(returned)

-----------------------------------------------------------------------------
(* The encoder and its caller stop exactly at what was not padded and does *)
(* not fit: a batch header whose Service and Forma are not four bytes, a   *)
(* segment B whose document type is not one (encoder.go:71-72, 140).  A    *)
(* segment A may then be left alone in the file, and such a file goes      *)
(* nowhere: in what the bank gets every order has its segment B, with its  *)
(* own sequence number, right after its segment A.                         *)
Fits == forma = 4 /\ \A k \in 1..Len(orders) : DocumentType[orders[k]] = 1

Segment(line, letter, k) ==
  /\ line.width = LineWidth
  /\ ReadString(line, 13, 14) = letter /\ ReadNum(line, 8, 13) = k % 10^5

RecordsAreWhole ==
  /\ stage # "open" => (stage = "stopped" <=> ~Fits)
  /\ stage \in {"bank", "decode"} =>
       /\ Len(file) = 2 * Len(orders) + 4
       /\ \A k \in 1..Len(orders) :
            Segment(file[2 * k + 1], "A", k) /\ Segment(file[2 * k + 2], "B", k)

(* The i-th row is the bank's i-th answer: batch, sequence, number and     *)
(* amount of the order it answers, cut to the digits of their fields, and  *)
(* the codes it gave - encoder and decoder agree on every offset, whatever *)
(* orders share a number.  Once the file is read each answer has its row.  *)
RowsAreTheAnswers ==
  /\ Len(rows) <= Len(answers) /\ (Done => Len(rows) = Len(answers))
  /\ \A i \in 1..Len(rows) :
       LET k == answers[i].order IN
       rows[i] = [batch |-> 1, sequence |-> k % 10^5, ourNumber |-> OurNumber[orders[k]],
                  amount |-> Amount[orders[k]] % AmountCeiling, codes |-> answers[i].codes]
=============================================================================
