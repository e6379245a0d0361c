----------------------- MODULE PaymentQueries_proofs -----------------------
(***************************************************************************)
(* Proofs about PaymentQueries, for any number of identifiers, any bodies  *)
(* and any limits.                                                         *)
(*                                                                         *)
(* A row is what Insert makes of an accepted payment and never changes     *)
(* (Stored); what the queries and recovery read follows from lemmas about  *)
(* the columns.  The walk is complete because every payment of its start   *)
(* is on a page or still below the cursor (Walking).                       *)
(***************************************************************************)
EXTENDS PaymentQueries, PaymentRequest_proofs, FiniteSetTheorems, TLAPS

\* What is stored and answered is made of the body that was sent.
Stored ==
  \A i \in Ids :
    /\ phase[i] = "insert" => sent[i] \in Posts
    /\ phase[i] # "done" => rows[i] = NoRow
    /\ rows[i] # NoRow => /\ sent[i] \in Posts /\ rows[i] = Row(MadeBy(sent[i]))
                          /\ TypesFit(MadeBy(sent[i]))
    /\ answer[i] # NoPayment =>
         rows[i] # NoRow /\ answer[i] = PaymentToResponse(MadeBy(sent[i]))

\* The cursor is the smallest identifier listed so far, and what was there
\* at the start is listed or below it.
Walking ==
  /\ \A i \in atStart : rows[i] # NoRow /\ rows[i].customer = customer
  /\ walk = "listing" =>
       /\ cursor = NoCursor => page = {} /\ earlier = {}
       /\ cursor # NoCursor => \A i \in page \cup earlier : cursor <= i
       /\ IF asked <= MaxLimit
            THEN \A i \in atStart : i \in page \cup earlier \/ Below(i, cursor)
            ELSE page = {} /\ earlier = {}

IInv == TypeOK /\ Stored /\ Walking /\ PageExtendsWalk /\ WalkIsComplete

-----------------------------------------------------------------------------
(* Bodies and columns *)

\* Create's payment of an accepted post is one of Made.
LEMMA PostMade ==
  ASSUME NEW post \in Posts
  PROVE  post.body \in Accepted /\ post.created \in Times /\ MadeBy(post) \in Made
BY DEF Posts, MadeBy, Made

\* KindOf lets a body through only if its one section passed its validation.
LEMMA AcceptedBody ==
  ASSUME NEW b \in Accepted
  PROVE  /\ FieldsFit(b) /\ ValidateAmount(b.amount)
         /\ b.method = "card" => ValidateCard(b.card) /\ ~(Len(b.card.number) < 4)
         /\ b.method = "upi" => ValidateUPI(b.upi.id)
         /\ b.method = "bank" => ValidateBankDetails(b.bank)
<1>1. KindOf(b) = "valid"
  BY DEF Accepted
<1>2. FieldsFit(b) /\ ValidateAmount(b.amount)
  BY <1>1 DEF KindOf
<1> QED
  BY <1>1, <1>2 DEF KindOf

\* A card brand is never the empty string.
LEMMA BrandNotEmpty == ASSUME NEW number PROVE detectCardBrand(number) # Empty
BY DEF detectCardBrand, Empty

\* The columns of its own method, and no others, are filled.
LEMMA OwnColumns ==
  ASSUME NEW b \in Accepted, NEW c \in Columns
  PROVE  (Details(b)[c] # Empty) = (\/ b.method = "card" /\ c \in CardColumns
                                    \/ b.method = "upi" /\ c = "upi_id"
                                    \/ b.method = "bank" /\ c \in BankColumns)
<1> USE AcceptedBody, TextAssumption DEF FieldsFit, Methods, Columns, CardColumns, BankColumns
<1>1. CASE b.method = "card"
  <2>1. /\ b.card.number \in Seq(STRING) /\ b.card.holder \in Seq(STRING)
        /\ Len(b.card.number) >= 4
    BY <1>1 DEF Accepted
  <2>2. LastFour(b.card.number) # Empty
    BY <2>1 DEF LastFour, Empty
  <2>3. /\ fingerprintCard(b.card.number) # Empty
        /\ encryptCardData(b.card.number, b.card.holder) # Empty
    BY <2>1 DEF Empty, fingerprintCard, encryptCardData
  <2> QED
    BY <1>1, <2>2, <2>3, BrandNotEmpty DEF Details
<1>2. CASE b.method = "upi"
  BY <1>2 DEF Details, ValidateUPI
<1>3. CASE b.method = "bank"
  BY <1>3 DEF Details, ValidateBankDetails, ValidateIFSC
<1> QED
  BY <1>1, <1>2, <1>3

\* The two lists of Amex prefixes agree.
LEMMA AmexAgrees ==
  ASSUME NEW cvv, NEW number \in Seq(STRING), Len(number) >= 4, cvvValid(cvv, number)
  PROVE  (detectCardBrand(number) = <<"amex">>) = (cvv = 4)
<1>1. CASE Prefix2(number) \in AmexPrefixes
  <2>1. cvv = 4
    BY <1>1 DEF cvvValid
  <2>2. /\ number[1] = "3"
        /\ Prefix2(number)[1] = "3"
    <3>1. Prefix2(number) = <<"3", "4">> \/ Prefix2(number) = <<"3", "7">>
      BY <1>1 DEF AmexPrefixes
    <3>2. Prefix2(number)[1] = "3"
      BY <3>1
    <3> QED
      BY <3>2 DEF Prefix2
  <2>3. \A d \in {"1", "2", "3", "4", "5"} : Prefix2(number) # <<"5", d>>
    <3>1. \A d : <<"5", d>>[1] = "5"
      OBVIOUS
    <3> QED
      BY <2>2, <3>1
  <2>4. /\ SubSeq(number, 1, 4) # <<"6", "0", "1", "1">>
        /\ Prefix2(number) # <<"6", "5">>
    <3>1. SubSeq(number, 1, 4)[1] = number[1]
      OBVIOUS
    <3>2. <<"6", "0", "1", "1">>[1] = "6" /\ <<"6", "5">>[1] = "6"
      OBVIOUS
    <3> QED
      BY <2>2, <3>1, <3>2
  <2>5. SubSeq(number, 1, 4) \notin {<<"3", "0", "8", "8">>, <<"3", "0", "9", "6">>}
    <3>1. number[2] \in {"4", "7"}
      <4>1. Prefix2(number)[2] \in {"4", "7"}
        BY <1>1 DEF AmexPrefixes
      <4> QED
        BY <4>1 DEF Prefix2
    <3>2. SubSeq(number, 1, 4)[2] = number[2]
      OBVIOUS
    <3>3. <<"3", "0", "8", "8">>[2] = "0" /\ <<"3", "0", "9", "6">>[2] = "0"
      OBVIOUS
    <3> QED
      BY <3>1, <3>2, <3>3
  <2>6. detectCardBrand(number) = <<"amex">>
    BY <1>1, <2>2, <2>3, <2>4, <2>5 DEF detectCardBrand
  <2> QED
    BY <2>1, <2>6
<1>2. CASE Prefix2(number) \notin AmexPrefixes
  <2>1. cvv = 3
    BY <1>2 DEF cvvValid
  <2>2. detectCardBrand(number) # <<"amex">>
    BY <1>2 DEF detectCardBrand
  <2> QED
    BY <2>1, <2>2
<1> QED
  BY <1>1, <1>2

\* In the table, the empty columns are NULL and the others are not.
LEMMA RowColumns ==
  ASSUME NEW p \in Made
  PROVE  \E b \in Accepted :
           /\ p.method = b.method /\ p.amount = b.amount /\ p.details = Details(b)
           /\ Row(p).method = b.method /\ Row(p).amount = b.amount
           /\ \A c \in Columns :
                Row(p).details[c] = IF Details(b)[c] = Empty THEN NULL ELSE Details(b)[c]
<1>1. PICK b \in Accepted, t \in Times : p = Payment(b, t)
  BY DEF Made
<1> QED
  BY <1>1 DEF Payment, Row, nullable

\* The payments that Create accepts satisfy the CHECK constraints, if their
\* currency does.
LEMMA ChecksHold == ASSUME NEW p \in Made PROVE Checks(Row(p)) = currency_length(Row(p))
<1>1. PICK b \in Accepted :
        /\ Row(p).method = b.method /\ Row(p).amount = b.amount
        /\ \A c \in Columns :
             Row(p).details[c] = IF Details(b)[c] = Empty THEN NULL ELSE Details(b)[c]
  BY RowColumns
<1>2. \A c \in Columns : (Row(p).details[c] # NULL) = (Details(b)[c] # Empty)
  BY <1>1, TextAssumption
<1>3. Row(p).amount > 0
  BY <1>1, AcceptedBody DEF ValidateAmount
<1>4. /\ \A c \in CardColumns : (Row(p).details[c] # NULL) = (b.method = "card")
      /\ (Row(p).details["upi_id"] # NULL) = (b.method = "upi")
      /\ \A c \in BankColumns : (Row(p).details[c] # NULL) = (b.method = "bank")
  <2>1. ASSUME NEW c \in CardColumns
        PROVE  (Row(p).details[c] # NULL) = (b.method = "card")
    <3>1. c \in Columns /\ c # "upi_id" /\ c \notin BankColumns
      BY <2>1 DEF Columns, CardColumns, BankColumns
    <3> QED
      BY <1>2, <3>1, OwnColumns, Zenon
  <2>2. (Row(p).details["upi_id"] # NULL) = (b.method = "upi")
    <3>1. /\ "upi_id" \in Columns
          /\ "upi_id" \notin CardColumns /\ "upi_id" \notin BankColumns
      BY DEF Columns, CardColumns, BankColumns
    <3> QED
      BY <1>2, <3>1, OwnColumns, Zenon
  <2>3. ASSUME NEW c \in BankColumns
        PROVE  (Row(p).details[c] # NULL) = (b.method = "bank")
    <3>1. c \in Columns /\ c # "upi_id" /\ c \notin CardColumns
      BY <2>3 DEF Columns, CardColumns, BankColumns
    <3> QED
      BY <1>2, <3>1, OwnColumns, Zenon
  <2> QED
    BY <2>1, <2>2, <2>3
<1>5. /\ Row(p).amount > 0
      /\ Together(Row(p), "card", CardColumns)
      /\ Together(Row(p), "upi", {"upi_id"})
      /\ Together(Row(p), "bank", BankColumns)
  BY <1>1, <1>3, <1>4 DEF Together
<1> QED
  BY <1>5 DEF Checks, currency_length

\* Reading a row gives the columns Create filled.
LEMMA RoundTrip ==
  ASSUME NEW p \in Made
  PROVE  /\ PaymentToResponse(ReadRow(Row(p))) =
              [PaymentToResponse(p) EXCEPT !.currency = Char3(@), !.created = Truncate(@)]
         /\ PaymentToResponse(p).currency = p.currency
<1>1. PICK b \in Accepted, t \in Times : p = Payment(b, t)
  BY DEF Made
<1>2. \A c \in Columns : Details(b)[c] # NULL
  BY TextAssumption
<1>3. Shown \subseteq Columns
  BY DEF Shown, Columns, CardColumns, BankColumns
<1>4. \A c \in Columns : ReadRow(Row(p)).details[c] = p.details[c]
  BY <1>1, <1>2 DEF ReadRow, scanNullable, Row, nullable, Payment
<1>5. [c \in Shown |-> ReadRow(Row(p)).details[c]] = [c \in Shown |-> p.details[c]]
  BY <1>3, <1>4
<1>6. /\ ReadRow(Row(p)).customer = p.customer /\ ReadRow(Row(p)).amount = p.amount
      /\ ReadRow(Row(p)).currency = Char3(p.currency) /\ ReadRow(Row(p)).method = p.method
      /\ ReadRow(Row(p)).metadata = p.metadata
      /\ ReadRow(Row(p)).created = Truncate(p.created)
  BY <1>1 DEF ReadRow, Row, Payment
<1> DEFINE details == [c \in Shown |-> p.details[c]]
<1>7. PaymentToResponse(ReadRow(Row(p))) =
        [customer |-> p.customer, amount |-> p.amount, currency |-> Char3(p.currency),
         method |-> p.method, details |-> details,
         metadata |-> p.metadata, created |-> Truncate(p.created)]
  BY <1>5, <1>6, Zenon DEF PaymentToResponse
<1>8. PaymentToResponse(p) =
        [customer |-> p.customer, amount |-> p.amount, currency |-> p.currency,
         method |-> p.method, details |-> details,
         metadata |-> p.metadata, created |-> p.created]
  BY DEF PaymentToResponse
<1> HIDE DEF details
<1>9. [PaymentToResponse(p) EXCEPT !.currency = Char3(@), !.created = Truncate(@)] =
        [customer |-> p.customer, amount |-> p.amount, currency |-> Char3(p.currency),
         method |-> p.method, details |-> details,
         metadata |-> p.metadata, created |-> Truncate(p.created)]
  <2> DEFINE currency == Char3(p.currency)
             created == Truncate(p.created)
             cut == [PaymentToResponse(p) EXCEPT !.currency = currency]
  <2>1. /\ PaymentToResponse(p).currency = p.currency
        /\ PaymentToResponse(p).created = p.created
    BY <1>8
  <2> HIDE DEF currency, created
  <2>2. cut = [customer |-> p.customer, amount |-> p.amount, currency |-> currency,
               method |-> p.method, details |-> details,
               metadata |-> p.metadata, created |-> p.created]
    BY <1>8
  <2>3. [PaymentToResponse(p) EXCEPT !.currency = currency, !.created = created] =
          [cut EXCEPT !.created = created]
    OBVIOUS
  <2> HIDE DEF cut
  <2>4. [cut EXCEPT !.created = created] =
          [customer |-> p.customer, amount |-> p.amount, currency |-> currency,
           method |-> p.method, details |-> details,
           metadata |-> p.metadata, created |-> created]
    BY <2>2
  <2> QED
    BY <2>1, <2>3, <2>4 DEF currency, created
<1> QED
  BY <1>7, <1>8, <1>9

\* A row is not the absence of one, a response not the absence of one.
LEMMA RowsExist ==
  ASSUME NEW p \in Made
  PROVE  Row(p) # NoRow /\ PaymentToResponse(p) # NoPayment
<1>1. PICK b \in Accepted, t \in Times : p = Payment(b, t)
  BY DEF Made
<1>2. "customer" \in DOMAIN Row(p) /\ "customer" \notin DOMAIN NoRow
  BY <1>1 DEF Payment, Row, NoRow
<1>3. "customer" \in DOMAIN PaymentToResponse(p) /\ "customer" \notin DOMAIN NoPayment
  BY DEF PaymentToResponse, NoPayment
<1> QED
  BY <1>2, <1>3

-----------------------------------------------------------------------------
(* Steps *)

\* The tables of Create and Insert keep their types.
LEMMA PostingTyped == IInv /\ [Next]_vars => TypeOK'
<1> SUFFICES ASSUME IInv, [Next]_vars PROVE TypeOK'
  OBVIOUS
<1> USE DEF IInv, TypeOK, posting, walking
<1>1. ASSUME NEW i \in Ids, NEW b \in Bodies, NEW t \in Times, Accept(i, b, t)
      PROVE  TypeOK'
  <2>1. [body |-> b, created |-> t] \in Posts
    BY <1>1 DEF Accept, Accepted, Posts
  <2> QED
    BY <1>1, <2>1 DEF Accept
<1>2. ASSUME NEW i \in Ids, NEW b \in Bodies, Refuse(i, b)
      PROVE  TypeOK'
  BY <1>2 DEF Refuse
<1>3. ASSUME NEW i \in Ids, Insert(i)
      PROVE  TypeOK'
  <2>1. MadeBy(sent[i]) \in Made
    BY <1>3, PostMade DEF Insert, Stored
  <2>2. /\ rows' \in [Ids -> {Row(p) : p \in Made} \cup {NoRow}]
        /\ answer' \in [Ids -> Responses \cup {NoPayment}]
    BY <1>3, <2>1 DEF Insert, Responses
  <2> QED
    BY <1>3, <2>2 DEF Insert
<1>4. ASSUME NEW i \in Ids, InsertFails(i)
      PROVE  TypeOK'
  BY <1>4 DEF InsertFails
<1>5. ASSUME NEW c \in Customers, NEW limit \in Limits, StartWalk(c, limit)
      PROVE  TypeOK'
  BY <1>5 DEF StartWalk, Selected
<1>6. CASE ListPage
  BY <1>6 DEF ListPage, Selected, IsLast
<1>7. CASE UNCHANGED vars
  BY <1>7 DEF vars
<1> QED
  BY <1>1, <1>2, <1>3, <1>4, <1>5, <1>6, <1>7 DEF Next

\* Insert alone writes rows and answers, from the body that was sent.
LEMMA StoredStep == IInv /\ [Next]_vars => Stored'
<1> SUFFICES ASSUME IInv, [Next]_vars PROVE Stored'
  OBVIOUS
<1> USE DEF IInv, TypeOK, Stored, posting, walking
<1>1. ASSUME NEW i \in Ids, NEW b \in Bodies, NEW t \in Times, Accept(i, b, t)
      PROVE  Stored'
  <2>1. [body |-> b, created |-> t] \in Posts
    BY <1>1 DEF Accept, Accepted, Posts
  <2>2. rows[i] = NoRow /\ answer[i] = NoPayment
    BY <1>1 DEF Accept
  <2> QED
    BY <1>1, <2>1, <2>2 DEF Accept
<1>2. ASSUME NEW i \in Ids, NEW b \in Bodies, Refuse(i, b)
      PROVE  Stored'
  BY <1>2 DEF Refuse
<1>3. ASSUME NEW i \in Ids, Insert(i)
      PROVE  Stored'
  <2>1. /\ sent[i] \in Posts /\ MadeBy(sent[i]) \in Made
        /\ TypesFit(MadeBy(sent[i]))
    BY <1>3, PostMade DEF Insert
  <2>2. Row(MadeBy(sent[i])) # NoRow
    BY <2>1, RowsExist
  <2>3. /\ sent' = sent /\ phase' = [phase EXCEPT ![i] = "done"]
        /\ rows' = [rows EXCEPT ![i] = Row(MadeBy(sent[i]))]
        /\ \/ answer' = answer
           \/ answer' = [answer EXCEPT ![i] = PaymentToResponse(MadeBy(sent[i]))]
    BY <1>3 DEF Insert
  <2>4. answer[i] = NoPayment
    BY <1>3 DEF Insert
  <2> QED
    BY <2>1, <2>2, <2>3, <2>4
<1>4. ASSUME NEW i \in Ids, InsertFails(i)
      PROVE  Stored'
  <2>1. rows[i] = NoRow /\ answer[i] = NoPayment
    BY <1>4 DEF InsertFails
  <2> QED
    BY <1>4, <2>1 DEF InsertFails
<1>5. ASSUME NEW c \in Customers, NEW limit \in Limits, StartWalk(c, limit)
      PROVE  Stored'
  BY <1>5 DEF StartWalk
<1>6. CASE ListPage
  BY <1>6 DEF ListPage
<1>7. CASE UNCHANGED vars
  BY <1>7 DEF vars
<1> QED
  BY <1>1, <1>2, <1>3, <1>4, <1>5, <1>6, <1>7 DEF Next

\* Rows stay as they are while payments are created around a walk.
LEMMA RowsStay ==
  ASSUME IInv, [Next]_vars, NEW i \in Ids, rows[i] # NoRow
  PROVE  rows'[i] = rows[i]
<1> USE DEF IInv, TypeOK, Stored, posting, walking
<1>1. ASSUME NEW j \in Ids, Insert(j)
      PROVE  rows'[i] = rows[i]
  <2>1. i # j
    BY <1>1 DEF Insert
  <2> QED
    BY <1>1, <2>1 DEF Insert
<1>2. ASSUME UNCHANGED rows
      PROVE  rows'[i] = rows[i]
  BY <1>2
<1> QED
  BY <1>1, <1>2 DEF Next, Accept, Refuse, InsertFails, StartWalk, ListPage, vars

\* A step that is not one of the walk leaves the walk's invariants alone.
LEMMA WalkStays ==
  ASSUME IInv, [Next]_vars, UNCHANGED walking
  PROVE  Walking' /\ PageExtendsWalk' /\ WalkIsComplete'
<1>1. \A i \in page \cup atStart : rows'[i] = rows[i]
  BY RowsStay DEF IInv, TypeOK, Walking, PageExtendsWalk
<1>2. \A i \in Ids : Below(i, cursor)' = Below(i, cursor)
  BY DEF walking, Below
<1>3. Walking'
  BY <1>1, <1>2 DEF walking, IInv, TypeOK, Walking
<1> QED
  BY <1>1, <1>3 DEF walking, IInv, PageExtendsWalk, WalkIsComplete

\* A walk begins with everything below its empty cursor.
LEMMA WalkStarts ==
  ASSUME IInv, NEW c \in Customers, NEW limit \in Limits, StartWalk(c, limit)
  PROVE  Walking' /\ PageExtendsWalk' /\ WalkIsComplete'
<1>1. Walking'
  BY DEF StartWalk, posting, Walking, Selected, Below, NoCursor, IInv, TypeOK
<1> QED
  BY <1>1 DEF StartWalk, PageExtendsWalk, WalkIsComplete

\* The next page lies below the cursor and takes the largest that are there.
LEMMA WalkGoesOn ==
  ASSUME IInv, ListPage
  PROVE  Walking' /\ PageExtendsWalk' /\ WalkIsComplete'
<1> DEFINE S == Selected(customer, cursor)
<1>0. /\ UNCHANGED <<rows, customer, asked, atStart>>
      /\ earlier' = earlier \cup page
      /\ walk = "listing"
  BY DEF ListPage, posting
<1>1. PICK p \in SUBSET S :
        /\ IsPage(p, S, Limit(asked))
        /\ page' = p
        /\ \/ /\ HasNext(p)
              /\ \E c \in p : IsLast(c, p) /\ cursor' = c
              /\ walk' = walk
           \/ /\ ~HasNext(p)
              /\ walk' = "over"
              /\ cursor' = cursor
  BY DEF ListPage
<1>2. /\ \A i \in S : i \in Ids /\ rows[i] # NoRow /\ rows[i].customer = customer
      /\ \A i \in S : Below(i, cursor)
  BY DEF Selected
<1>3. page \subseteq Ids /\ earlier \subseteq Ids /\ atStart \subseteq Ids
      /\ asked \in Nat \ {0} /\ cursor \in Nat /\ Ids \subseteq Nat \ {0}
  BY LimitAssumption DEF IInv, TypeOK, NoCursor, Ids
<1>4. \A i \in p, j \in page \cup earlier : i < j
  <2>1. ASSUME NEW i \in p, NEW j \in page \cup earlier
        PROVE  i < j
    <3>1. i \in Nat /\ j \in Nat /\ Below(i, cursor)
      BY <1>2, <1>3
    <3>2. cursor # NoCursor /\ cursor <= j
      BY <1>0 DEF IInv, Walking
    <3> QED
      BY <1>3, <3>1, <3>2 DEF Below
  <2> QED
    BY <2>1
<1>5. PageExtendsWalk'
  BY <1>0, <1>1, <1>2, <1>4 DEF PageExtendsWalk
<1>6. \A i \in atStart : rows[i] # NoRow /\ rows[i].customer = customer
  BY DEF IInv, Walking
<1>7. ASSUME asked <= MaxLimit
      PROVE  Walking' /\ WalkIsComplete'
  <2>1. Limit(asked) = asked
    BY <1>3, <1>7, LimitAssumption DEF Limit
  <2>2. \A i \in atStart : i \in page \cup earlier \/ i \in S
    BY <1>0, <1>3, <1>6, <1>7 DEF IInv, Walking, Selected
  <2>3. CASE HasNext(p)
    <3>1. PICK c \in p : IsLast(c, p) /\ cursor' = c
      BY <1>1, <2>3
    <3>2. c \in Ids /\ c # NoCursor
      BY <1>2, <1>3, <3>1 DEF NoCursor
    <3>3. \A i \in S \ p : Below(i, c)
      BY <1>1, <1>3, <1>2, <3>1 DEF IsPage, Below
    <3>4. \A i \in p \cup page \cup earlier : c <= i
      BY <1>2, <1>3, <1>4, <3>1, <3>2 DEF IsLast
    <3>5. walk' = "listing"
      BY <1>0, <1>1, <2>3
    <3>6. \A i \in Ids : Below(i, cursor)' = Below(i, c)
      BY <3>1 DEF Below
    <3>7. \A i \in atStart : i \in p \cup page \cup earlier \/ Below(i, c)
      BY <2>2, <3>3
    <3>8. Walking'
      BY <1>0, <1>1, <1>3, <1>6, <1>7, <3>1, <3>2, <3>4, <3>6, <3>7 DEF Walking
    <3> QED
      BY <3>5, <3>8 DEF WalkIsComplete
  <2>4. CASE ~HasNext(p)
    <3>1. p = S
      BY <1>1, <2>1, <2>4 DEF IsPage, HasNext
    <3>2. walk' = "over" /\ atStart \subseteq p \cup page \cup earlier
      BY <1>1, <2>2, <2>4, <3>1
    <3> QED
      BY <1>0, <1>1, <1>6, <1>7, <3>2 DEF Walking, WalkIsComplete
  <2> QED
    BY <2>3, <2>4
<1>8. ASSUME ~(asked <= MaxLimit)
      PROVE  Walking' /\ WalkIsComplete'
  <2>1. Limit(asked) = DefaultLimit /\ DefaultLimit < asked
    BY <1>3, <1>8, LimitAssumption DEF Limit
  <2>2. page = {} /\ earlier = {}
    BY <1>0, <1>8 DEF IInv, Walking
  <2>3. Cardinality(p) <= DefaultLimit
    BY <1>1, <2>1, LimitAssumption DEF IsPage
  <2>4. ~HasNext(p)
    BY <1>3, <2>1, <2>3, LimitAssumption DEF HasNext
  <2>5. walk' = "over"
    BY <1>1, <2>4
  <2> QED
    BY <1>0, <1>1, <1>6, <1>8, <2>2, <2>3, <2>5 DEF Walking, WalkIsComplete
<1> QED
  BY <1>5, <1>7, <1>8

\* The inductive invariant.
LEMMA Invariance == Spec => []IInv
<1>1. Init => IInv
  <2> SUFFICES ASSUME Init PROVE IInv
    OBVIOUS
  <2>1. TypeOK
    BY DEF Init, TypeOK
  <2> QED
    BY <2>1 DEF Init, IInv, Stored, Walking, PageExtendsWalk, WalkIsComplete
<1>2. IInv /\ [Next]_vars => IInv'
  <2> SUFFICES ASSUME IInv, [Next]_vars PROVE IInv'
    OBVIOUS
  <2>1. TypeOK' /\ Stored'
    BY PostingTyped, StoredStep
  <2>2. \/ UNCHANGED walking
        \/ \E c \in Customers, limit \in Limits : StartWalk(c, limit)
        \/ ListPage
    BY DEF Next, Accept, Refuse, Insert, InsertFails, vars
  <2> QED
    BY <2>1, <2>2, WalkStays, WalkStarts, WalkGoesOn DEF IInv
<1> QED
  BY <1>1, <1>2, PTL DEF Spec

-----------------------------------------------------------------------------
(* Theorems *)

\* Posts, rows, answers and walks have the types of the code, whatever the
\* bodies and limits.
THEOREM TypeCorrect == Spec => []TypeOK
<1>1. IInv => TypeOK
  BY DEF IInv
<1> QED
  BY <1>1, Invariance, PTL

\* Whatever passed the Go validation, no CHECK constraint of the payments
\* table but currency_length refuses it.
THEOREM ConstraintsAgree == Spec => []OnlyCurrencyCanFail
<1>1. IInv => OnlyCurrencyCanFail
  BY PostMade, ChecksHold DEF IInv, Stored, OnlyCurrencyCanFail
<1> QED
  BY <1>1, Invariance, PTL

\* A stored card is an Amex by its brand exactly if it was one by its CVV.
THEOREM BrandsMatch == Spec => []BrandMatchesCvv
<1>1. IInv => BrandMatchesCvv
  <2> SUFFICES ASSUME IInv, NEW i \in Ids, rows[i] # NoRow, rows[i].method = "card"
               PROVE  (rows[i].details["card_brand"] = <<"amex">>)
                        = (sent[i].body.card.cvv = 4)
    BY DEF BrandMatchesCvv
  <2> DEFINE b == sent[i].body
             number == b.card.number
  <2>1. sent[i] \in Posts /\ rows[i] = Row(MadeBy(sent[i]))
    BY DEF IInv, Stored
  <2>2. b \in Accepted /\ b.method = "card"
    BY <2>1 DEF Posts, MadeBy, Payment, Row
  <2>3. /\ number \in Seq(STRING) /\ Len(number) >= 4
        /\ cvvValid(b.card.cvv, number)
    BY <2>2, AcceptedBody, TextAssumption DEF FieldsFit, Accepted, ValidateCard
  <2>4. rows[i].details["card_brand"] = detectCardBrand(number)
    <3>1. "card_brand" \in Columns /\ Details(b)["card_brand"] = detectCardBrand(number)
      BY <2>2 DEF Columns, CardColumns, Details
    <3>2. rows[i].details["card_brand"] = nullable(Details(b)["card_brand"])
      BY <2>1, <3>1 DEF Row, MadeBy, Payment
    <3> QED
      BY <3>1, <3>2, BrandNotEmpty DEF nullable
  <2> HIDE DEF b, number
  <2>5. (detectCardBrand(number) = <<"amex">>) = (b.card.cvv = 4)
    BY <2>3, AmexAgrees
  <2> QED
    BY <2>4, <2>5 DEF b
<1> QED
  BY <1>1, Invariance, PTL

\* A stored card number does not pass luhn with any one digit changed, or with
\* two neighbouring digits exchanged that are not 0 and 9.
THEOREM MistypesRefused == Spec => []MistypedCardRefused
<1>1. IInv => MistypedCardRefused
  <2> SUFFICES ASSUME IInv, NEW i \in Ids, rows[i] # NoRow, rows[i].method = "card",
                      NEW number, number = sent[i].body.card.number
               PROVE  /\ \A k \in 1..Len(number), d \in 1..10 :
                           Digit[d] # number[k] =>
                             ~luhn([number EXCEPT ![k] = Digit[d]])
                      /\ \A k \in 1..Len(number) - 1 :
                           /\ number[k] # number[k + 1]
                           /\ {number[k], number[k + 1]} # {"0", "9"}
                           => ~luhn([number EXCEPT ![k] = number[k + 1],
                                                   ![k + 1] = number[k]])
    BY DEF MistypedCardRefused
  <2> DEFINE b == sent[i].body
  <2>1. sent[i] \in Posts /\ rows[i] = Row(MadeBy(sent[i]))
    BY DEF IInv, Stored
  <2>2. b \in Accepted /\ b.method = "card"
    BY <2>1 DEF Posts, MadeBy, Payment, Row
  <2>3. number \in Seq(STRING) /\ luhn(number)
    BY <2>2, AcceptedBody, TextAssumption DEF FieldsFit, Accepted, ValidateCard
  <2> QED
    BY <2>3, LuhnDetectsMistype, LuhnDetectsSwap
<1> QED
  BY <1>1, Invariance, PTL

\* GET answers what the POST was answered, with created_at cut to microseconds
\* and the currency to three characters, of which only blanks are lost.
THEOREM ReadsAgree == Spec => []ReadBackAgrees
<1>1. IInv => ReadBackAgrees
  <2> SUFFICES ASSUME IInv, NEW i \in Ids, answer[i] # NoPayment
               PROVE  /\ GetPayment(i) = [answer[i] EXCEPT !.currency = Char3(@),
                                                           !.created = Truncate(@)]
                      /\ FitsChar3(answer[i].currency)
    BY DEF ReadBackAgrees
  <2>1. /\ sent[i] \in Posts /\ rows[i] # NoRow /\ rows[i] = Row(MadeBy(sent[i]))
        /\ TypesFit(MadeBy(sent[i]))
        /\ answer[i] = PaymentToResponse(MadeBy(sent[i]))
    BY DEF IInv, Stored
  <2> QED
    BY <2>1, PostMade, RoundTrip DEF GetPayment, TypesFit
<1> QED
  BY <1>1, Invariance, PTL

\* Pages never repeat or reorder payments, and show only the customer's own.
THEOREM PagesExtendWalk == Spec => []PageExtendsWalk
<1>1. IInv => PageExtendsWalk
  BY DEF IInv
<1> QED
  BY <1>1, Invariance, PTL

\* Following next_cursor to its end shows every payment there was at the
\* start, for every limit up to MaxLimit.
THEOREM WalksAreComplete == Spec => []WalkIsComplete
<1>1. IInv => WalkIsComplete
  BY DEF IInv
<1> QED
  BY <1>1, Invariance, PTL

-----------------------------------------------------------------------------
(* Pages *)

\* Every nonempty set of identifiers has a smallest and a largest one.
LEMMA Extremes ==
  ASSUME NEW T \in SUBSET Ids, T # {}
  PROVE  /\ \E m \in T : \A i \in T : m <= i
         /\ \E m \in T : \A i \in T : i <= m
<1>1. Ids \subseteq Nat /\ \A i \in Ids : N - i \in Nat
  BY LimitAssumption DEF Ids
<1>2. \E m \in T : \A i \in T : m <= i
  BY <1>1, LeastElement
<1> DEFINE R == {N - i : i \in T}
<1>3. R \in SUBSET Nat /\ R # {}
  BY <1>1
<1>4. PICK n \in R : \A k \in R : n <= k
  <2> HIDE DEF R
  <2> QED
    BY <1>3, LeastElement
<1>5. PICK m \in T : n = N - m
  BY <1>4
<1>6. \A i \in T : N - m <= N - i
  BY <1>4, <1>5
<1>7. \A i \in T : i <= m
  BY <1>1, <1>6, LimitAssumption
<1> QED
  BY <1>2, <1>7

\* There are finitely many payments.
LEMMA FinitelyMany ==
  ASSUME NEW selected \in SUBSET Ids
  PROVE  IsFiniteSet(selected) /\ Cardinality(selected) \in Nat
<1>1. IsFiniteSet(Ids)
  BY FS_Interval, LimitAssumption DEF Ids
<1> QED
  BY <1>1, FS_Subset, FS_CardinalityType

\* The page of a limit is there, and one longer follows from it.
LEMMA PageExists ==
  ASSUME NEW selected \in SUBSET Ids, NEW n \in Nat
  PROVE  \E p \in SUBSET selected : IsPage(p, selected, n)
<1> DEFINE S == {k \in Nat : \E p \in SUBSET selected : IsPage(p, selected, k)}
<1>1. 0 \in S
  <2>1. IsPage({}, selected, 0)
    BY FS_EmptySet DEF IsPage
  <2> QED
    BY <2>1
<1>2. ASSUME NEW k \in Nat, k \in S
      PROVE  k + 1 \in S
  <2>1. PICK p \in SUBSET selected : IsPage(p, selected, k)
    BY <1>2
  <2>2. IsFiniteSet(p) /\ Cardinality(p) \in Nat
    BY FinitelyMany
  <2>3. CASE p = selected
    BY <2>1, <2>2, <2>3 DEF IsPage
  <2>4. CASE p # selected
    <3>1. PICK m \in selected \ p : \A i \in selected \ p : i <= m
      BY <2>4, Extremes
    <3> DEFINE q == p \cup {m}
    <3>2. Cardinality(q) = k + 1
      BY <2>1, <2>2, <2>4, <3>1, FS_AddElement DEF IsPage
    <3>3. \A i \in q, j \in selected \ q : i > j
      <4>1. selected \subseteq Int
        BY DEF Ids
      <4> QED
        BY <2>1, <3>1, <4>1 DEF IsPage
    <3>4. q \in SUBSET selected /\ IsPage(q, selected, k + 1)
      BY <3>2, <3>3 DEF IsPage
    <3> QED
      BY <3>4
  <2> QED
    BY <2>3, <2>4
<1>3. Nat \subseteq S
  <2> HIDE DEF S
  <2> QED
    BY <1>1, <1>2, SetInduction
<1> QED
  BY <1>3

\* Of two pages one contains the other, for both are the largest identifiers.
LEMMA PageUnique ==
  ASSUME NEW selected \in SUBSET Ids, NEW n \in Nat,
         NEW p \in SUBSET selected, IsPage(p, selected, n),
         NEW q \in SUBSET selected, IsPage(q, selected, n)
  PROVE  p = q
<1>1. \A s, t \in SUBSET selected :
        IsPage(s, selected, n) /\ IsPage(t, selected, n) /\ s \subseteq t => s = t
  <2> SUFFICES ASSUME NEW s \in SUBSET selected, NEW t \in SUBSET selected,
                      IsPage(s, selected, n), IsPage(t, selected, n), s \subseteq t
               PROVE  s = t
    OBVIOUS
  <2>1. /\ IsFiniteSet(t) /\ Cardinality(t) \in Nat /\ Cardinality(s) \in Nat
        /\ Cardinality(t) <= n
        /\ s = selected \/ Cardinality(s) = n
    BY FinitelyMany DEF IsPage
  <2>2. /\ Cardinality(s) <= Cardinality(t)
        /\ Cardinality(t) = Cardinality(s) => s = t
    BY <2>1, FS_Subset
  <2> QED
    BY <2>1, <2>2
<1>2. p \subseteq q \/ q \subseteq p
  <2> SUFFICES ASSUME NEW i \in p \ q, NEW j \in q \ p PROVE FALSE
    OBVIOUS
  <2>1. i > j /\ j > i /\ i \in Int /\ j \in Int
    BY DEF IsPage, Ids
  <2> QED
    BY <2>1
<1> QED
  BY <1>1, <1>2

\* ListPage always has one page to show, whatever the table holds: the page
\* that IsPage describes exists and is unique, and if a next_cursor is given
\* there is a last payment on it to be that cursor.
THEOREM NextPageExists ==
  ASSUME TypeOK
  PROVE  \E p \in SUBSET Selected(customer, cursor) :
           /\ IsPage(p, Selected(customer, cursor), Limit(asked))
           /\ HasNext(p) => \E c \in p : IsLast(c, p)
           /\ \A q \in SUBSET Selected(customer, cursor) :
                IsPage(q, Selected(customer, cursor), Limit(asked)) => q = p
<1> DEFINE S == Selected(customer, cursor)
<1>1. S \in SUBSET Ids
  BY DEF Selected
<1>2. Limit(asked) \in Nat /\ asked \in Nat \ {0}
  BY LimitAssumption DEF TypeOK, Limit
<1> HIDE DEF S
<1>3. PICK p \in SUBSET S : IsPage(p, S, Limit(asked))
  BY <1>1, <1>2, PageExists
<1>4. \A q \in SUBSET S : IsPage(q, S, Limit(asked)) => q = p
  BY <1>1, <1>2, <1>3, PageUnique
<1>5. ASSUME HasNext(p)
      PROVE  \E c \in p : IsLast(c, p)
  <2>1. p # {}
    BY <1>2, <1>5, FS_EmptySet DEF HasNext
  <2> QED
    BY <1>1, <2>1, Extremes DEF IsLast
<1> QED
  BY <1>3, <1>4, <1>5 DEF S

-----------------------------------------------------------------------------
(* Refinement of PagedReading *)

\* A payment that is inserted appears as one of its customer's, once.
LEMMA InsertAppears ==
  ASSUME IInv, NEW i \in Ids, Insert(i)
  PROVE  \E c \in Customers : Reading!Appear(i, c)
<1> DEFINE post == sent[i]
           c == post.body.customer
<1>1. /\ rows[i] = NoRow /\ post \in Posts
      /\ rows' = [rows EXCEPT ![i] = Row(MadeBy(post))]
      /\ UNCHANGED walking
  BY DEF Insert, IInv, Stored
<1>2. c \in Customers
  BY <1>1 DEF Posts, Accepted, Customers
<1>3. rows'[i] # NoRow /\ rows'[i].customer = c
  <2>1. Row(MadeBy(post)) # NoRow
    BY <1>1, PostMade, RowsExist
  <2>2. Row(MadeBy(post)).customer = c
    BY DEF Row, MadeBy, Payment
  <2> QED
    BY <1>1, <2>1, <2>2 DEF IInv, TypeOK
<1>4. \A j \in Ids \ {i} : rows'[j] = rows[j]
  BY <1>1
<1> HIDE DEF c, post
<1>5. ASSUME NEW d \in Customers
      PROVE  /\ i \notin Owned(d)
             /\ Owned(d)' = IF d = c THEN Owned(d) \cup {i} ELSE Owned(d)
  BY <1>1, <1>3, <1>4 DEF Owned
<1>6. [d \in Customers |-> Owned(d)]' =
        [[d \in Customers |-> Owned(d)] EXCEPT ![c] = @ \cup {i}]
  BY <1>2, <1>5
<1>7. Reading!Appear(i, c)
  BY <1>1, <1>5, <1>6 DEF Reading!Appear, walking
<1> QED
  BY <1>2, <1>7

\* A page shows payments of the customer that were not shown before, at least
\* one if more are to follow.
LEMMA PageShows ==
  ASSUME IInv, ListPage
  PROVE  Reading!Show(page')
<1>1. PICK p \in SUBSET Selected(customer, cursor) :
        /\ page' = p
        /\ \/ (\E c \in p : TRUE) /\ walk' = walk
           \/ walk' = "over"
  BY DEF ListPage
<1>2. /\ walk = "listing" /\ earlier' = earlier \cup page
      /\ UNCHANGED <<rows, customer, asked, atStart>>
  BY DEF ListPage, posting
<1>3. PageExtendsWalk' /\ WalkIsComplete'
  BY WalkGoesOn
<1>4. page' \subseteq Owned(customer) /\ \A i \in page', j \in earlier \cup page : i < j
  BY <1>1, <1>2, <1>3 DEF Selected, Owned, PageExtendsWalk
<1>5. earlier' \cup page' = (earlier \cup page) \cup page'
  BY <1>2
<1>6. walk' = "over" => (asked <= MaxLimit => atStart \subseteq earlier' \cup page')
  BY <1>2, <1>3 DEF WalkIsComplete
<1>7. [d \in Customers |-> Owned(d)]' = [d \in Customers |-> Owned(d)]
  BY <1>2 DEF Owned
<1>8. customer \in Customers
  BY DEF IInv, TypeOK
<1> QED
  BY <1>1, <1>2, <1>4, <1>5, <1>6, <1>7, <1>8 DEF Reading!Show

\* Every step is a step of PagedReading or leaves it alone.
LEMMA ReadingStep == IInv /\ [Next]_vars => [Reading!Next]_(Reading!reading)
<1> SUFFICES ASSUME IInv, [Next]_vars PROVE [Reading!Next]_(Reading!reading)
  OBVIOUS
<1>1. CASE UNCHANGED <<rows, walking>>
  <2>1. [c \in Customers |-> Owned(c)]' = [c \in Customers |-> Owned(c)]
    BY <1>1 DEF Owned
  <2> QED
    BY <1>1, <2>1 DEF walking, Reading!reading
<1>2. ASSUME NEW i \in Ids, Insert(i)
      PROVE  Reading!Next
  BY <1>2, InsertAppears DEF Reading!Next
<1>3. ASSUME NEW c \in Customers, NEW limit \in Limits, StartWalk(c, limit)
      PROVE  Reading!Next
  <2>1. /\ [d \in Customers |-> Owned(d)]' = [d \in Customers |-> Owned(d)]
        /\ atStart' = Owned(c)
    BY <1>3 DEF StartWalk, posting, Owned, Selected, Below
  <2>2. (asked <= MaxLimit)' \in BOOLEAN /\ earlier' \cup page' = {}
    BY <1>3 DEF StartWalk
  <2>3. Reading!Begin(c)
    BY <1>3, <2>1, <2>2 DEF StartWalk, Reading!Begin
  <2> QED
    BY <2>3 DEF Reading!Next
<1>4. CASE ListPage
  <2>1. page' \subseteq Ids
    BY PostingTyped DEF TypeOK
  <2> QED
    BY <1>4, <2>1, PageShows DEF Reading!Next
<1> QED
  BY <1>1, <1>2, <1>3, <1>4
     DEF Next, Accept, Refuse, InsertFails, posting, walking, vars

\* The walk through the pages, whatever its limit and whatever is created
\* beside it, is a reading as a client is promised it.
THEOREM ImplementsReading == Spec => ReadingSpec
<1>1. Init => Reading!Init
  BY DEF Init, Owned, Reading!Init
<1> QED
  BY <1>1, ReadingStep, Invariance, PTL DEF Spec, ReadingSpec, Reading!Spec

=============================================================================
