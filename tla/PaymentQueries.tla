--------------------------- MODULE PaymentQueries ---------------------------
(***************************************************************************)
(* The payments of several customers as clients see them: the POST that    *)
(* creates a payment (Create's validation and INSERT), GET of one payment, *)
(* and a client that walks through GET /v1/payments page by page.          *)
(*                                                                         *)
(* Identifiers are numbers, for UUIDv7 sorts by time.  Create takes one    *)
(* before it inserts, so rows appear in any order of their identifiers.    *)
(* The status of a payment is PaymentService's subject and left out here.  *)
(***************************************************************************)
EXTENDS PaymentTable, FiniteSets

CONSTANTS N,             \* identifiers are 1..N
          Bodies,        \* bodies of POST /v1/payments
          Times,         \* times at which Create builds a payment
          Limits,        \* values of the query parameter limit
          DefaultLimit,  \* what List uses for a limit it does not accept
          MaxLimit       \* the largest limit List accepts

ASSUME LimitAssumption ==
  /\ N \in Nat
  /\ Limits \subseteq Nat \ {0}
  /\ DefaultLimit \in Nat \ {0} /\ MaxLimit \in Nat
  /\ DefaultLimit <= MaxLimit

VARIABLES phase,     \* phase[i]: how far the POST that was given identifier i is
          sent,      \* sent[i]: its body and the time Create took for created_at
          rows,      \* rows[i]: the row of the payments table
          answer,    \* answer[i]: the 201 the POST was answered
          walk,      \* "idle", "listing" or "over"
          customer,  \* the customer_id of the walk
          asked,     \* its limit
          cursor,    \* its cursor, NoCursor at first
          page,      \* the identifiers of the last page
          earlier,   \* those of the pages before
          atStart    \* the customer's payments when the walk began

posting == <<phase, sent, rows, answer>>
walking == <<walk, customer, asked, cursor, page, earlier, atStart>>
vars == <<posting, walking>>

Ids == 1..N
NoCursor == 0
NoBody == [error |-> "no body"]
NoRow == [error |-> "no row"]
NotFound == [error |-> "not found"]
Customers == {b.customer : b \in Bodies}

Accepted == {b \in Bodies : KindOf(b) = "valid"}
Made == {Payment(b, t) : b \in Accepted, t \in Times}
MadeBy(post) == Payment(post.body, post.created)

\* NULL is no Go string, the regular expressions do not match the empty one,
\* and card fields are strings.
ASSUME TextAssumption ==
  /\ Empty \notin UPIIDs \cup IFSCs
  /\ \A b \in Bodies :
       b.card # Nil => /\ b.card.number \in Seq(STRING)
                        /\ b.card.holder \in Seq(STRING)
  /\ \A b \in Accepted, c \in Columns : Details(b)[c] # NULL

Init ==
  /\ phase = [i \in Ids |-> "free"]
  /\ sent = [i \in Ids |-> NoBody]
  /\ rows = [i \in Ids |-> NoRow]
  /\ answer = [i \in Ids |-> NoPayment]
  /\ walk = "idle" /\ customer \in Customers /\ asked \in Limits
  /\ cursor = NoCursor /\ page = {} /\ earlier = {} /\ atStart = {}

-----------------------------------------------------------------------------
(* POST /v1/payments *)

\* MUTANT of Accept: a body is not validated.
AcceptUnvalidated(i, b, t) ==
  /\ phase[i] = "free"
  /\ phase' = [phase EXCEPT ![i] = "insert"]
  /\ sent' = [sent EXCEPT ![i] = [body |-> b, created |-> t]]
  /\ UNCHANGED <<rows, answer, walking>>

\* Create accepts a body and builds a payment with identifier i.
Accept(i, b, t) ==
  /\ phase[i] = "free"
  /\ KindOf(b) = "valid"
  /\ phase' = [phase EXCEPT ![i] = "insert"]
  /\ sent' = [sent EXCEPT ![i] = [body |-> b, created |-> t]]
  /\ UNCHANGED <<rows, answer, walking>>

\* The handler or Create answers with an error, or Create panics.
Refuse(i, b) ==
  /\ phase[i] = "free"
  /\ KindOf(b) # "valid"
  /\ phase' = [phase EXCEPT ![i] = "done"]
  /\ UNCHANGED <<sent, rows, answer, walking>>

\* The INSERT commits.  Its answer, or the creation event, may still be lost,
\* and with it the client's answer.
Insert(i) ==
  /\ phase[i] = "insert"
  /\ LET p == MadeBy(sent[i])
     IN  /\ TypesFit(p) /\ Checks(Row(p))
         /\ rows' = [rows EXCEPT ![i] = Row(p)]
         /\ \/ answer' = [answer EXCEPT ![i] = PaymentToResponse(p)]
            \/ answer' = answer
  /\ phase' = [phase EXCEPT ![i] = "done"]
  /\ UNCHANGED <<sent, walking>>

\* The INSERT fails: a constraint or a type, or the database is away.  Create
\* may also fail before it, making an identifier or encrypting the card.
InsertFails(i) ==
  /\ phase[i] = "insert"
  /\ phase' = [phase EXCEPT ![i] = "done"]
  /\ sent' = [sent EXCEPT ![i] = NoBody]
  /\ UNCHANGED <<rows, answer, walking>>

-----------------------------------------------------------------------------
(* GET /v1/payments/{id} *)

\* The answer of handleGetPayment, which changes nothing.
GetPayment(i) ==
  IF rows[i] = NoRow THEN NotFound ELSE PaymentToResponse(ReadRow(rows[i]))

-----------------------------------------------------------------------------
(* GET /v1/payments?customer_id=...&cursor=...&limit=... *)

\* service.List
Limit(n) == IF n <= 0 \/ n > MaxLimit THEN DefaultLimit ELSE n

\* MUTANT of Below: the payment the cursor names comes again.
BelowOrAt(i, c) == c = NoCursor \/ i <= c

\* $2::uuid IS NULL OR id < $2::uuid
Below(i, c) == c = NoCursor \/ i < c

\* MUTANT of Selected: the customer is not asked for.
SelectedOfAnyone(c, from) ==
  {i \in Ids : rows[i] # NoRow /\ Below(i, from)}

\* The rows the WHERE clause of repo.List lets through.
Selected(c, from) ==
  {i \in Ids : rows[i] # NoRow /\ rows[i].customer = c /\ Below(i, from)}

\* ORDER BY id DESC LIMIT n keeps the n largest identifiers.
IsPage(p, selected, n) ==
  /\ \A i \in p, j \in selected \ p : i > j
  /\ \/ p = selected /\ Cardinality(p) <= n
     \/ Cardinality(p) = n

\* MUTANT of IsLast: the first payment of the page is taken for the last.
IsFirst(c, p) == c \in p /\ \A i \in p : i <= c

IsLast(c, p) == c \in p /\ \A i \in p : c <= i

\* MUTANT of HasNext: a full page is taken for the last one.
HasMoreThanAsked(p) == Cardinality(p) > asked

\* handleListPayments gives a next_cursor if the page is as long as the limit
\* the client asked for, which need not be the one List used.
HasNext(p) == Cardinality(p) = asked

\* A client sets out to read all payments of a customer.
StartWalk(c, limit) ==
  /\ walk # "listing"
  /\ walk' = "listing" /\ customer' = c /\ asked' = limit
  /\ cursor' = NoCursor /\ page' = {} /\ earlier' = {}
  /\ atStart' = Selected(c, NoCursor)
  /\ UNCHANGED posting

\* The client asks for the page after its cursor, as long as there is a
\* next_cursor.
ListPage ==
  /\ walk = "listing"
  /\ \E p \in SUBSET Selected(customer, cursor) :
       /\ IsPage(p, Selected(customer, cursor), Limit(asked))
       /\ page' = p
       /\ \/ /\ HasNext(p)
             /\ \E c \in p : IsLast(c, p) /\ cursor' = c
             /\ walk' = walk
          \/ /\ ~HasNext(p)
             /\ walk' = "over"
             /\ cursor' = cursor
  /\ earlier' = earlier \cup page
  /\ UNCHANGED <<posting, customer, asked, atStart>>

-----------------------------------------------------------------------------

Next ==
  \/ \E i \in Ids :
       \/ \E b \in Bodies, t \in Times : Accept(i, b, t)
       \/ \E b \in Bodies : Refuse(i, b)
       \/ Insert(i) \/ InsertFails(i)
  \/ \E c \in Customers, limit \in Limits : StartWalk(c, limit)
  \/ ListPage

\* The client of the walk asks again until there is no next_cursor.
Spec == Init /\ [][Next]_vars /\ WF_vars(ListPage)

-----------------------------------------------------------------------------
(* Properties *)

Posts == [body : Accepted, created : Times]
Responses == {PaymentToResponse(p) : p \in Made}

\* Type correctness of what Create, the table and the walk keep.
TypeOK ==
  /\ phase \in [Ids -> {"free", "insert", "done"}]
  /\ sent \in [Ids -> Posts \cup {NoBody}]
  /\ rows \in [Ids -> {Row(p) : p \in Made} \cup {NoRow}]
  /\ answer \in [Ids -> Responses \cup {NoPayment}]
  /\ walk \in {"idle", "listing", "over"}
  /\ customer \in Customers /\ asked \in Limits
  /\ cursor \in Ids \cup {NoCursor}
  /\ page \subseteq Ids /\ earlier \subseteq Ids /\ atStart \subseteq Ids

\* Of the CHECK constraints, only currency_length can refuse a payment that
\* Create accepted: nothing in Go looks at the currency, while the checks of
\* the amount and of each method's fields, spread over three files, imply the
\* other four constraints.
OnlyCurrencyCanFail ==
  \A i \in Ids :
    phase[i] = "insert" =>
      LET row == Row(MadeBy(sent[i])) IN Checks(row) = currency_length(row)

\* cvvValid (validator.go) and detectCardBrand (service/payment.go) each have
\* their own list of Amex prefixes: a stored card is of brand amex exactly if
\* four digits were asked for as its CVV.
BrandMatchesCvv ==
  \A i \in Ids :
    rows[i] # NoRow /\ rows[i].method = "card" =>
      (rows[i].details["card_brand"] = <<"amex">>) = (sent[i].body.card.cvv = 4)

\* The number of a stored card with any one digit mistyped, or with two
\* neighbouring digits exchanged, is no card number, and Create would have
\* refused it; the Luhn sum cannot tell 09 from 90.
MistypedCardRefused ==
  \A i \in Ids :
    rows[i] # NoRow /\ rows[i].method = "card" =>
      LET number == sent[i].body.card.number
      IN  /\ \A k \in 1..Len(number), d \in 1..10 :
               Digit[d] # number[k] => ~luhn([number EXCEPT ![k] = Digit[d]])
          /\ \A k \in 1..Len(number) - 1 :
               number[k] # number[k + 1] /\ {number[k], number[k + 1]} # {"0", "9"} =>
                 ~luhn([number EXCEPT ![k] = number[k + 1], ![k + 1] = number[k]])

\* After the POST was answered 201, GET answers the same payment but for what
\* the columns do not keep: the nanoseconds of created_at, and the blanks that
\* follow the third character of the currency.
ReadBackAgrees ==
  \A i \in Ids :
    answer[i] # NoPayment =>
      /\ GetPayment(i) =
           [answer[i] EXCEPT !.currency = Char3(@), !.created = Truncate(@)]
      /\ FitsChar3(answer[i].currency)

\* A page continues the walk: it lists payments of the customer only, all
\* older than those of the pages before, so none twice, whatever is created
\* in between and in whatever order the rows of new identifiers appear.
PageExtendsWalk ==
  /\ \A i \in page : rows[i] # NoRow /\ rows[i].customer = customer
  /\ \A i \in page, j \in earlier : i < j

\* A client that has followed next_cursor to its end has seen every payment
\* the customer had when it began, if its limit is one that List accepts.
\* With a larger limit it may be told that there are no more when there are.
WalkIsComplete ==
  walk = "over" /\ asked <= MaxLimit => atStart \subseteq earlier \cup page

\* What of the table and of the walk a client can tell: creations in any order
\* and pages of any limit implement PagedReading.
Owned(c) == {i \in Ids : rows[i] # NoRow /\ rows[i].customer = c}
Reading == INSTANCE PagedReading WITH
  Payments <- Ids, owned <- [c \in Customers |-> Owned(c)],
  reader <- customer, state <- walk, whole <- asked <= MaxLimit,
  owed <- atStart, shown <- earlier \cup page
ReadingSpec == Reading!Spec

\* PaymentResponse is "used by both the handler and the recovery sweep to
\* ensure reconstructed responses are identical to what the handler returns"
\* (domain/response.go:6-7).
RebuiltResponseIsHandlers ==
  \A i \in Ids :
    answer[i] # NoPayment =>
      /\ fetchPayment(rows[i]) # NoPayment
      /\ PaymentToResponse(fetchPayment(rows[i])) = answer[i]

\* Following next_cursor comes to an end, also while payments are created.
WalkEnds == (walk = "listing") ~> (walk = "over")

=============================================================================
