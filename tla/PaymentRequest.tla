--------------------------- MODULE PaymentRequest ---------------------------
(***************************************************************************)
(* What becomes of the body of POST /v1/payments before anything is        *)
(* written: the field checks of handleCreatePayment, the validation of     *)
(* PaymentService.Create with pkg/validator, and the domain.Payment that   *)
(* Create builds.  Constant level.                                         *)
(*                                                                         *)
(* A Go string is a sequence of tokens, <<>> the empty one.  Only a card   *)
(* number is looked at digit by digit; of a CVV only the length counts.    *)
(* The sections of a body, like its metadata, are records or Nil.         *)
(***************************************************************************)
EXTENDS Integers, Sequences

CONSTANTS MaxAmount,   \* ValidateAmount's limit, in paise
          Now,         \* the clock: [month, year]
          UPIIDs,      \* the strings upiRegex matches
          IFSCs        \* the strings ifscRegex matches

Nil == [nil |-> TRUE]   \* a nil pointer or map
Empty == <<>>

Digit == <<"0", "1", "2", "3", "4", "5", "6", "7", "8", "9">>

Methods == {"card", "upi", "bank"}

-----------------------------------------------------------------------------
(* pkg/validator *)

ValidateAmount(amount) == 0 < amount /\ amount <= MaxAmount

\* strconv.Atoi of one character
Atoi(c) == CHOOSE n \in 0..9 : Digit[n + 1] = c

\* MUTANT of Doubled: a product above nine is added as it is.
DoubledUnreduced(n) == 2 * n

Doubled(n) == IF 2 * n > 9 THEN 2 * n - 9 ELSE 2 * n

\* What the i-th digit from the right adds to the sum: every second one is
\* doubled.
Summand(number, i) ==
  LET n == Atoi(number[Len(number) + 1 - i])
  IN  IF i % 2 = 0 THEN Doubled(n) ELSE n

\* The sum luhn has after each digit, from the right.
LuhnSum(number) ==
  LET sum[i \in 0..Len(number)] ==
        IF i = 0 THEN 0 ELSE sum[i - 1] + Summand(number, i)
  IN  sum

luhn(number) ==
  /\ \A i \in 1..Len(number) : \E d \in 1..10 : number[i] = Digit[d]
  /\ LuhnSum(number)[Len(number)] % 10 = 0

cardExpiryValid(month, year) ==
  /\ month \in 1..12
  /\ year > Now.year \/ (year = Now.year /\ month >= Now.month)

Prefix2(number) == <<number[1], number[2]>>
AmexPrefixes == {<<"3", "4">>, <<"3", "7">>}

\* MUTANT of cvvValid: three digits for every card.
CvvAlwaysThree(cvv, number) == number # Empty /\ cvv = 3

\* cvvValid: four digits for Amex, three for the others.
cvvValid(cvv, number) ==
  /\ number # Empty
  /\ cvv = IF Len(number) >= 2 /\ Prefix2(number) \in AmexPrefixes THEN 4 ELSE 3

ValidateCard(card) ==
  /\ luhn(card.number)
  /\ cardExpiryValid(card.month, card.year)
  /\ cvvValid(card.cvv, card.number)
  /\ card.holder # Empty

ValidateUPI(upi) == upi \in UPIIDs

ValidateIFSC(ifsc) == ifsc \in IFSCs

\* MUTANT of ValidateBankDetails: the account number is not required.
BankDetailsWithoutAccount(bank) == ValidateIFSC(bank.ifsc) /\ bank.holder # Empty

ValidateBankDetails(bank) ==
  bank.account # Empty /\ ValidateIFSC(bank.ifsc) /\ bank.holder # Empty

-----------------------------------------------------------------------------
(* handleCreatePayment and PaymentService.Create *)

\* The section of the body that each method requires; the others must be nil.
FieldsFit(body) ==
  /\ body.method \in Methods
  /\ (body.method = "card") = (body.card # Nil)
  /\ (body.method = "upi")  = (body.upi # Nil)
  /\ (body.method = "bank") = (body.bank # Nil)

LastFour(number) == SubSeq(number, Len(number) - 3, Len(number))

\* Called for numbers of at least four digits; no two cases overlap.
detectCardBrand(number) ==
  CASE number[1] = "4" -> <<"visa">>
    [] \E d \in {"1", "2", "3", "4", "5"} : Prefix2(number) = <<"5", d>>
         -> <<"mastercard">>
    [] Prefix2(number) \in AmexPrefixes -> <<"amex">>
    [] \/ SubSeq(number, 1, 4) = <<"6", "0", "1", "1">>
       \/ Prefix2(number) = <<"6", "5">> -> <<"discover">>
    [] SubSeq(number, 1, 4) \in {<<"3", "0", "8", "8">>, <<"3", "0", "9", "6">>}
         -> <<"rupay">>
    [] OTHER -> <<"unknown">>

\* A hash and a ciphertext: different for different cards, and never empty.
fingerprintCard(number) == <<"sha256">> \o number
encryptCardData(number, holder) == <<"aes">> \o number \o holder

\* What the handler and Create find wrong with a decoded body, the first
\* error winning; a valid card number too short for its last four digits
\* makes Create panic.
KindOf(body) ==
  IF ~FieldsFit(body) THEN "bad_fields"
  ELSE IF ~ValidateAmount(body.amount) THEN "bad_amount"
  ELSE IF body.method = "card" /\ ~ValidateCard(body.card) THEN "bad_details"
  ELSE IF body.method = "card" /\ Len(body.card.number) < 4 THEN "short_card"
  ELSE IF body.method = "upi" /\ ~ValidateUPI(body.upi.id) THEN "bad_upi"
  ELSE IF body.method = "bank" /\ ~ValidateBankDetails(body.bank) THEN "bad_details"
  ELSE "valid"

\* The optional strings of domain.Payment, by their column.
CardColumns == {"card_last_four", "card_brand", "card_fingerprint",
                "encrypted_card_data"}
BankColumns == {"account_number", "ifsc_code", "account_holder_name"}
Columns == CardColumns \cup BankColumns \cup {"upi_id"}

\* The columns Create fills for each method; the rest keep Go's zero value.
Details(body) ==
  [c \in Columns |->
     CASE body.method = "card" /\ c = "card_last_four" -> LastFour(body.card.number)
       [] body.method = "card" /\ c = "card_brand" -> detectCardBrand(body.card.number)
       [] body.method = "card" /\ c = "card_fingerprint" -> fingerprintCard(body.card.number)
       [] body.method = "card" /\ c = "encrypted_card_data" ->
            encryptCardData(body.card.number, body.card.holder)
       [] body.method = "upi" /\ c = "upi_id" -> body.upi.id
       [] body.method = "bank" /\ c = "account_number" -> body.bank.account
       [] body.method = "bank" /\ c = "ifsc_code" -> body.bank.ifsc
       [] body.method = "bank" /\ c = "account_holder_name" -> body.bank.holder
       [] OTHER -> Empty]

\* The domain.Payment Create builds; created is time.Now() in nanoseconds.
Payment(body, created) ==
  [customer |-> body.customer, amount |-> body.amount, currency |-> body.currency,
   inet |-> body.inet, method |-> body.method, details |-> Details(body),
   metadata |-> body.metadata, created |-> created]

=============================================================================
