---------------------------- MODULE PaymentTable ----------------------------
(***************************************************************************)
(* A row of the payments table: what its columns make of a domain.Payment  *)
(* on INSERT, what types and CHECK constraints demand of it, how the       *)
(* queries and the recovery's fetchPayment read it back, and the response  *)
(* made of what was read.  Constant level.                                 *)
(***************************************************************************)
EXTENDS PaymentRequest

CONSTANTS NULL         \* SQL NULL, never the value of a Go string

NoPayment == [error |-> "no payment"]

\* nullableString, nullableBytes
nullable(s) == IF s = Empty THEN NULL ELSE s

\* TIMESTAMPTZ keeps microseconds, Go's clock nanoseconds.
Truncate(time) == [time EXCEPT !.ns = 0]

Blank == " "

\* CHAR(3) has three characters: shorter text is padded with blanks, of longer
\* text the first three are kept (FitsChar3 says when that is no error).
Char3(text) == [n \in 1..3 |-> IF n <= Len(text) THEN text[n] ELSE Blank]

\* Only blanks may be cut off.
FitsChar3(text) == \A n \in 4..Len(text) : text[n] = Blank

\* repo.Insert: the column values of a payment.
Row(p) ==
  [p EXCEPT !.currency = Char3(p.currency),
            !.details = [c \in Columns |-> nullable(p.details[c])],
            !.created = Truncate(p.created)]

\* Columns that are all present for their method and all NULL otherwise.
Together(row, method, columns) ==
  \A c \in columns : (row.details[c] # NULL) = (row.method = method)

\* char_length of a CHAR(3) does not count trailing blanks: it is 3 unless the
\* third character is one.
currency_length(row) == row.currency[3] # Blank

\* The CHECK constraints amount_positive, currency_length, card_fields,
\* upi_fields and bank_fields.
Checks(row) ==
  /\ row.amount > 0
  /\ currency_length(row)
  /\ Together(row, "card", CardColumns)
  /\ Together(row, "upi", {"upi_id"})
  /\ Together(row, "bank", BankColumns)

\* The columns whose types refuse what nothing in the handler or in Create has
\* looked at: currency, a CHAR(3), and ip_address, an INET.
TypesFit(p) == FitsChar3(p.currency) /\ p.inet

\* scanNullableString, scanNullableBytes: NULL is read as the empty value.
scanNullable(v) == IF v = NULL THEN Empty ELSE v

\* MUTANT of ReadRow: account_number is scanned into the holder's name.
ReadRowMisplaced(row) ==
  [row EXCEPT !.details =
     [c \in Columns |->
        LET column == IF c = "account_holder_name" THEN "account_number" ELSE c
        IN  scanNullable(row.details[column])]]

\* GetByID, List and GetByIDForUpdate
ReadRow(row) ==
  [row EXCEPT !.details = [c \in Columns |-> scanNullable(row.details[c])]]

\* The columns a response shows.
Shown == {"card_last_four", "card_brand", "upi_id", "ifsc_code",
          "account_holder_name"}

\* fetchPayment scans the columns shown into plain strings, which fails on
\* NULL, and does not select the metadata.
fetchPayment(row) ==
  IF \E c \in Shown : row.details[c] = NULL
    THEN NoPayment
    ELSE [ReadRow(row) EXCEPT !.metadata = Nil]

\* PaymentToResponse
PaymentToResponse(p) ==
  [customer |-> p.customer, amount |-> p.amount, currency |-> p.currency,
   method |-> p.method, details |-> [c \in Shown |-> p.details[c]],
   metadata |-> p.metadata, created |-> p.created]

=============================================================================
